---------------------------- MODULE Spec2Model ----------------------------
(***************************************************************************)
(* Document-to-podcast pipeline: dialogue generation and response parsing  *)
(* (llm_generator.py), audio assembly and voice resolution                 *)
(* (tts_generator.py), the pipeline (main.py), the usage ledger            *)
(* (usage_tracker.py) and the job registry of backend/podcast_api.py.      *)
(*                                                                         *)
(* Python strings are modelled as sequences of one-character strings, so   *)
(* that lower(), strip(), the substring tests and the regular expressions  *)
(* of the source are computed character by character.                      *)
(***************************************************************************)
EXTENDS Integers, Sequences, FiniteSets, TLC

VARIABLES
    \* ---- TogetherLLMGenerator instance and one generate_podcast_dialogue call
    model,            \* self.model
    total_requests,   \* self.total_requests
    failed_requests,  \* self.failed_requests
    total_tokens,     \* self.total_tokens
    pc,               \* position of the caller in generate_podcast_dialogue
    attempt,          \* loop variable of `for attempt in range(MAX_RETRIES)`
    outcomes,         \* provider outcomes of the attempts made by the current call
    result,           \* value returned by the current call (a dialogue) or None
    error,            \* exception raised by the current call or None
    start_stats,      \* the statistics and the model when the current call began
    call_args,        \* the arguments of the current call
    gen_op,           \* the last generator method that ran: "call" | "attempt" | "reset"
    \* ---- one _parse_and_validate_response evaluation
    response_text,    \* the raw provider response handed to the parser
    parse_pc,         \* "start" | "done"
    parsed,           \* the parser's outcome
    \* ---- one CartesiaTTSGenerator.generate_and_save call
    dialogue,         \* the input turn list
    add_pauses,       \* keyword argument add_pauses
    turn_index,       \* number of turns the for loop has consumed
    audio_segments,   \* the accumulator list
    previous_speaker, \* local previous_speaker
    synth,            \* per consumed turn: "skipped" | "ok" | "failed"
    audio_pc,         \* "loop" | "returned" | "raised"
    audio_metadata,   \* metadata returned by generate_and_save or None
    \* ---- one TogetherNotebookLM.create_podcast call
    document,         \* what document_path holds
    options,          \* the PodcastOptions
    pipe_pc,          \* the step create_podcast is about to run, or "done"
    pipe_dialogue,    \* local dialogue (as returned by the generator) or None
    stages,           \* the steps that have run, in order
    pipe_result,      \* the PodcastResult returned or None
    \* ---- one CartesiaTTSGenerator._resolve_voice evaluation
    voice_input,      \* argument voice_input
    voice_role,       \* argument role
    voice_pc,         \* "start" | "returned"
    voice_config,     \* the VoiceConfig returned or None
    \* ---- the usage tracker and the provider calls of both generators
    records,          \* TogetherUsageTracker.records
    provider_calls,   \* the provider calls SpecUsage has made so far, in order
    \* ---- concurrent track_generation calls on one TogetherUsageTracker
    usage_file,       \* what usage_records.json holds
    tracker_lock,     \* the thread that holds self._lock, or NoThread
    thread_pc,        \* per thread: its position in track_generation
    thread_data,      \* per thread: the list _save_records is writing
    \* ---- the job registry of backend/podcast_api.py and its requests
    now,              \* the instant datetime.now() returns
    generation_jobs,  \* the module-level dict generation_jobs
    doc_files,        \* the files of backend/uploads/temp, by job id
    background_tasks, \* the tasks added to BackgroundTasks, in order
    handlers          \* per request: the job id and the response of its handler

genVars   == <<model, total_requests, failed_requests, total_tokens, pc,
               attempt, outcomes, result, error, start_stats, call_args,
               gen_op>>
parseVars == <<response_text, parse_pc, parsed>>
audioVars == <<dialogue, add_pauses, turn_index, audio_segments,
               previous_speaker, synth, audio_pc, audio_metadata>>
pipeVars  == <<document, options, pipe_pc, pipe_dialogue, stages,
               pipe_result>>
voiceVars == <<voice_input, voice_role, voice_pc, voice_config>>
usageVars == <<records, provider_calls>>
trackVars == <<usage_file, tracker_lock, thread_pc, thread_data>>
apiVars   == <<now, generation_jobs, doc_files, background_tasks, handlers>>
vars      == <<genVars, parseVars, audioVars, pipeVars, voiceVars,
               usageVars, trackVars, apiVars>>

\* Python's None, for values that are otherwise records
None == [none |-> TRUE]
\* Python's None, for the local previous_speaker (otherwise a role name)
NoSpeaker == "None"
\* Python's None, for values that are otherwise strings
NoText == "None"

(***************************************************************************)
(* Python str operations                                                   *)
(***************************************************************************)
UpperChars ==
    <<"A","B","C","D","E","F","G","H","I","J","K","L","M",
      "N","O","P","Q","R","S","T","U","V","W","X","Y","Z">>
LowerChars ==
    <<"a","b","c","d","e","f","g","h","i","j","k","l","m",
      "n","o","p","q","r","s","t","u","v","w","x","y","z">>

LowerChar(c) ==
    IF \E k \in DOMAIN UpperChars : UpperChars[k] = c
    THEN LowerChars[CHOOSE k \in DOMAIN UpperChars : UpperChars[k] = c]
    ELSE c

\* str.lower()
StrLower(s) == [k \in 1..Len(s) |-> LowerChar(s[k])]

\* characters removed by str.strip() and matched by \s
IsSpace(c) == c \in {" ", "\t", "\n", "\r"}

\* `sub in s`
Contains(s, sub) ==
    \E k \in 1..(Len(s) - Len(sub) + 1) : SubSeq(s, k, k + Len(sub) - 1) = sub

\* str.rstrip()
RStrip(s) ==
    LET keep == {k \in 1..Len(s) : ~IsSpace(s[k])}
    IN  IF keep = {} THEN <<>>
        ELSE SubSeq(s, 1, CHOOSE k \in keep : \A j \in keep : j <= k)

\* str.lstrip()
LStrip(s) ==
    LET keep == {k \in 1..Len(s) : ~IsSpace(s[k])}
    IN  IF keep = {} THEN <<>>
        ELSE SubSeq(s, CHOOSE k \in keep : \A j \in keep : k <= j, Len(s))

\* str.strip()
Strip(s) == LStrip(RStrip(s))

\* str.endswith(c) for a one-character suffix
EndsWith(s, c) == Len(s) > 0 /\ s[Len(s)] = c


(***************************************************************************)
(* Strings of the source (as character sequences)                          *)
(***************************************************************************)
s_host      == <<"h","o","s","t">>
s_guest     == <<"g","u","e","s","t">>
s_cohost    == <<"c","o","h","o","s","t">>
s_co_host   == <<"c","o","-","h","o","s","t">>
s_s1        == <<"s","1">>
s_s3        == <<"s","3">>
s_speaker_1 == <<"s","p","e","a","k","e","r"," ","1">>
s_speaker_3 == <<"s","p","e","a","k","e","r"," ","3">>
DefaultTitle == "AI-Generated Podcast"

(***************************************************************************)
(* The two regular expressions of _fallback_parse, both compiled with      *)
(* re.DOTALL | re.IGNORECASE:                                              *)
(*  1: \[?(HOST|GUEST|COHOST|CO-HOST|Speaker\s*[123]|S[123])\]?\s*:?\s*    *)
(*     (.+?)(?=\[?(?:HOST|...|S[123])\]?:|$)                               *)
(*  2: (Host|Guest|Cohost|Co-Host)\s*:\s*(.+?)                             *)
(*     (?=(?:Host|Guest|Cohost|Co-Host)\s*:|$)                             *)
(***************************************************************************)
Digit123(c) == c \in {"1", "2", "3"}

\* the literal w (lower case) matches s at p, ignoring case
WordAt(s, p, w) ==
    /\ p >= 1
    /\ p + Len(w) - 1 <= Len(s)
    /\ StrLower(SubSeq(s, p, p + Len(w) - 1)) = w

\* \s* from p, greedy: the first position at or after p that is not a space
SkipSpaces(s, p) ==
    CHOOSE q \in p..(Len(s) + 1) :
        /\ \A k \in p..(q - 1) : IsSpace(s[k])
        /\ (q = Len(s) + 1 \/ ~IsSpace(s[q]))

\* The label alternation tried at p, in the order the pattern lists its
\* alternatives; the position just after the label, or 0 when none matches.
LabelEnd(s, p, pat) ==
    IF WordAt(s, p, s_host) THEN p + 4
    ELSE IF WordAt(s, p, s_guest) THEN p + 5
    ELSE IF WordAt(s, p, s_cohost) THEN p + 6
    ELSE IF WordAt(s, p, s_co_host) THEN p + 7
    ELSE IF pat = 1 /\ WordAt(s, p, <<"s","p","e","a","k","e","r">>)
            /\ SkipSpaces(s, p + 7) <= Len(s)
            /\ Digit123(s[SkipSpaces(s, p + 7)])
         THEN SkipSpaces(s, p + 7) + 1
    ELSE IF pat = 1 /\ WordAt(s, p, <<"s">>)
            /\ p + 1 <= Len(s) /\ Digit123(s[p + 1])
         THEN p + 2
    ELSE 0

\* `$` without re.MULTILINE: the end, or just before a final newline
AtEnd(s, q) == q = Len(s) + 1 \/ (q = Len(s) /\ s[q] = "\n")

\* the lookahead's \]?: (pattern 1) or \s*: (pattern 2) after a label that
\* ends just before le
ColonAfter(s, le, pat) ==
    /\ le # 0
    /\ IF pat = 1
       THEN \/ le <= Len(s) /\ s[le] = ":"
            \/ le + 1 <= Len(s) /\ s[le] = "]" /\ s[le + 1] = ":"
       ELSE SkipSpaces(s, le) <= Len(s) /\ s[SkipSpaces(s, le)] = ":"

\* a label followed by the colon the lookahead asks for, the label at p
LabelColonAt(s, p, pat) == ColonAfter(s, LabelEnd(s, p, pat), pat)

\* the lookahead (?=...) at q
Lookahead(s, q, pat) ==
    \/ AtEnd(s, q)
    \/ LabelColonAt(s, q, pat)
    \/ pat = 1 /\ q <= Len(s) /\ s[q] = "[" /\ LabelColonAt(s, q + 1, pat)

\* Where group 2 starts when the label of a match ends just before le (0:
\* no label) and the greedy separators \]?\s*:?\s* end just before d, c
\* being the position after the optional colon. When the separators swallow
\* the rest of the text the engine backtracks by one character so that the
\* lazy (.+?) gets its one character, the last of the text. 0: no match.
GroupStartAfter(s, le, hasColon, c, d, pat) ==
    IF pat = 1
    THEN (IF d <= Len(s) THEN d ELSE IF le <= Len(s) THEN Len(s) ELSE 0)
    ELSE (IF ~hasColon THEN 0
          ELSE IF d <= Len(s) THEN d
          ELSE IF d > c THEN Len(s) ELSE 0)

\* b: the position after \]?\s*
AfterColon(s, le, b, pat) ==
    IF b <= Len(s) /\ s[b] = ":"
    THEN GroupStartAfter(s, le, TRUE, b + 1, SkipSpaces(s, b + 1), pat)
    ELSE GroupStartAfter(s, le, FALSE, b, b, pat)

AfterLabel(s, le, pat) ==
    IF le = 0 THEN 0
    ELSE IF pat = 1 /\ le <= Len(s) /\ s[le] = "]"
         THEN AfterColon(s, le, SkipSpaces(s, le + 1), pat)
         ELSE AfterColon(s, le, SkipSpaces(s, le), pat)

\* where group 2 starts when the label of a match is at L, or 0 when the
\* pattern cannot match there
GroupStart(s, L, pat) == AfterLabel(s, LabelEnd(s, L, pat), pat)

\* the leftmost position at or after pos where the pattern matches, or 0
FirstMatch(s, pos, pat) ==
    IF \E L \in pos..Len(s) : GroupStart(s, L, pat) # 0
    THEN CHOOSE L \in pos..Len(s) :
            /\ GroupStart(s, L, pat) # 0
            /\ \A y \in pos..(L - 1) : GroupStart(s, y, pat) = 0
    ELSE 0

\* the last character of the lazy group (.+?) that starts at g
GroupEnd(s, g, pat) ==
    CHOOSE x \in g..Len(s) :
        /\ Lookahead(s, x + 1, pat)
        /\ \A y \in g..(x - 1) : ~Lookahead(s, y + 1, pat)

\* re.finditer from pos: the matches in order, each as [label, text]
\* (group 1 and group 2)
RECURSIVE FindIter(_, _, _)
RECURSIVE MatchAt(_, _, _)
RECURSIVE MatchGroup(_, _, _, _)
RECURSIVE MatchRest(_, _, _, _, _)
MatchRest(s, L, g, e, pat) ==
    <<[label |-> SubSeq(s, L, LabelEnd(s, L, pat) - 1),
       text  |-> SubSeq(s, g, e)]>>
    \o FindIter(s, e + 1, pat)

MatchGroup(s, L, g, pat) == MatchRest(s, L, g, GroupEnd(s, g, pat), pat)

MatchAt(s, L, pat) ==
    IF L = 0 THEN <<>> ELSE MatchGroup(s, L, GroupStart(s, L, pat), pat)

FindIter(s, pos, pat) == MatchAt(s, FirstMatch(s, pos, pat), pat)

(***************************************************************************)
(* TogetherLLMGenerator: class constants                                   *)
(***************************************************************************)
DEFAULT_MODEL  == "meta-llama/Llama-3-70b-chat-hf"
FALLBACK_MODEL == "meta-llama/Meta-Llama-3.1-70B-Instruct-Turbo"
MAX_RETRIES    == 3

LENGTH_CONFIGS ==
    [l \in {"5min", "10min", "15min", "20min"} |->
        CASE l = "5min"  -> [turns |-> <<10, 15>>, max_tokens |-> 2500]
          [] l = "10min" -> [turns |-> <<15, 25>>, max_tokens |-> 4000]
          [] l = "15min" -> [turns |-> <<25, 35>>, max_tokens |-> 5000]
          [] l = "20min" -> [turns |-> <<35, 45>>, max_tokens |-> 6000]]

(***************************************************************************)
(* A provider response is the pair of its raw text and the value           *)
(* json.loads yields from it (directly, or from the embedded {...} span or *)
(* fenced block that _extract_json searches for); json = None when no such *)
(* value exists. JSON objects are records: a key is present iff it is in   *)
(* the record's DOMAIN. The text of a response whose JSON value is a       *)
(* non-empty object is never read by the parser.                           *)
(***************************************************************************)
EmptyObject == [k \in {} |-> TRUE]

\* _extract_json
ExtractJson(response) == response.json

\* Python truth value of the extracted JSON value (`if not json_data`)
Falsy(json_data) == json_data = None \/ json_data = EmptyObject

\* mutant of NormalizeSpeaker: the label is not lower-cased
NormalizeSpeaker_CaseSensitive(raw) ==
    IF raw \in {s_host, s_guest, s_cohost} THEN raw
    ELSE IF Contains(raw, s_s1) \/ Contains(raw, s_speaker_1) THEN s_host
    ELSE IF \/ Contains(raw, s_s3)
            \/ Contains(raw, s_speaker_3)
            \/ Contains(raw, s_co_host)
         THEN s_cohost
    ELSE s_guest

\* the speaker normalisation of the JSON path
NormalizeSpeaker(raw) ==
    LET speaker == StrLower(raw)
    IN  IF speaker \in {s_host, s_guest, s_cohost} THEN speaker
        ELSE IF Contains(speaker, s_s1) \/ Contains(speaker, s_speaker_1)
             THEN s_host
        ELSE IF \/ Contains(speaker, s_s3)
                \/ Contains(speaker, s_speaker_3)
                \/ Contains(speaker, s_co_host)
             THEN s_cohost
        ELSE s_guest

\* the role _fallback_parse gives to group 1 of a match
FallbackSpeaker(label) ==
    LET speaker_label == StrLower(Strip(label))
    IN  IF \/ Contains(speaker_label, s_host)
           \/ Contains(speaker_label, s_s1)
           \/ Contains(speaker_label, s_speaker_1)
        THEN s_host
        ELSE IF \/ Contains(speaker_label, s_cohost)
                \/ Contains(speaker_label, s_co_host)
                \/ Contains(speaker_label, s_s3)
                \/ Contains(speaker_label, s_speaker_3)
             THEN s_cohost
        ELSE s_guest

\* _validate_speaker_alternation: TRUE iff it prints a warning, i.e. some
\* speaker has more than max_consecutive (3) consecutive turns
ConsecutiveWarning(turns) ==
    \E k \in 1..(Len(turns) - 3) :
        \A j \in (k + 1)..(k + 3) : turns[j].speaker = turns[j - 1].speaker

\* `len(turns) < min_turns * 0.7`
LowTurnCount(turns, config) == 10 * Len(turns) < 7 * config.turns[1]

\* mutant of KeepsMatch: only the emptiness test
KeepsMatch_NoMinimum(text_content) == text_content # <<>>

\* `if text_content and len(text_content) > 10`
KeepsMatch(text_content) == text_content # <<>> /\ Len(text_content) > 10

\* mutant of AppendMatches: a kept match is numbered by its position among
\* the matches, as the JSON path numbers by the loop index
RECURSIVE AppendMatches_NumberedByMatch(_, _)
AppendMatches_NumberedByMatch(turns, matches) ==
    IF matches = <<>> THEN turns
    ELSE LET m            == matches[Len(matches)]
             text_content == Strip(m.text)
             before       == AppendMatches_NumberedByMatch(
                                 turns, SubSeq(matches, 1, Len(matches) - 1))
         IN  IF KeepsMatch(text_content)
             THEN Append(before, [speaker     |-> FallbackSpeaker(m.label),
                                  text        |-> text_content,
                                  turn_number |-> Len(turns) + Len(matches)])
             ELSE before

\* the turns appended by the match loop of _fallback_parse for one pattern:
\* matches whose stripped text is longer than 10 characters, numbered by
\* their position in the list being built
RECURSIVE AppendMatches(_, _)
AppendMatches(turns, matches) ==
    IF matches = <<>> THEN turns
    ELSE LET m            == Head(matches)
             text_content == Strip(m.text)
         IN  AppendMatches(
                 IF KeepsMatch(text_content)
                 THEN Append(turns, [speaker     |-> FallbackSpeaker(m.label),
                                     text        |-> text_content,
                                     turn_number |-> Len(turns) + 1])
                 ELSE turns,
                 Tail(matches))

\* the loop over the two patterns: the second is tried only when the first
\* appended no turn
SecondPattern(text, first) ==
    IF first # <<>> THEN first
    ELSE AppendMatches(<<>>, FindIter(text, 1, 2))

FallbackTurns(text) ==
    SecondPattern(text, AppendMatches(<<>>, FindIter(text, 1, 1)))

FallbackResult(turns, self_model) ==
    IF turns = <<>>
    THEN [ok |-> FALSE, error |-> "Could not parse dialogue from response"]
    ELSE [ok |-> TRUE,
          dialogue |-> [title |-> DefaultTitle,
                        turns |-> turns,
                        metadata |-> [model |-> self_model,
                                      parsed_with_fallback |-> TRUE]],
          printed |-> {"fallback"}]

\* _fallback_parse
FallbackParse(text, self_model) ==
    FallbackResult(FallbackTurns(text), self_model)

\* mutant of JsonTurn: the 0-based loop index as turn_number
JsonTurn_ZeroBased(turn_data, k) ==
    [speaker     |-> NormalizeSpeaker(turn_data.speaker),
     text        |-> Strip(turn_data.text),
     turn_number |-> k - 1]

\* the DialogueTurn built from element k (1-based) of json_data['turns']
JsonTurn(turn_data, k) ==
    [speaker     |-> NormalizeSpeaker(turn_data.speaker),
     text        |-> Strip(turn_data.text),
     turn_number |-> k]

\* _parse_and_validate_response
ParseAndValidateResponse(response, config, self_model, self_tokens) ==
    LET json_data == ExtractJson(response)
    IN  IF Falsy(json_data) THEN FallbackParse(response.text, self_model)
        ELSE IF "turns" \notin DOMAIN json_data
        THEN [ok |-> FALSE, error |-> "Response missing 'turns' field"]
        ELSE IF \E k \in DOMAIN json_data.turns :
                    \/ "speaker" \notin DOMAIN json_data.turns[k]
                    \/ "text" \notin DOMAIN json_data.turns[k]
        THEN [ok |-> FALSE, error |-> "Turn missing required fields"]
        ELSE LET turns == [k \in 1..Len(json_data.turns) |->
                              JsonTurn(json_data.turns[k], k)]
             IN  [ok |-> TRUE,
                  dialogue |->
                     [title |-> IF "title" \in DOMAIN json_data
                                THEN json_data.title ELSE DefaultTitle,
                      turns |-> turns,
                      metadata |-> [model        |-> self_model,
                                    total_turns  |-> Len(turns),
                                    total_tokens |-> self_tokens]],
                  printed |->
                     (IF LowTurnCount(turns, config)
                      THEN {"low_turn_count"} ELSE {})
                     \cup (IF ConsecutiveWarning(turns)
                           THEN {"consecutive_turns"} ELSE {})]

(***************************************************************************)
(* Bounded inputs of the parser                                            *)
(***************************************************************************)
MaxJsonTurns == 3   \* longest turns array of a JSON payload
MaxSpans     == 3   \* most labelled spans of a non-JSON response

UpperChar(c) ==
    IF \E k \in DOMAIN LowerChars : LowerChars[k] = c
    THEN UpperChars[CHOOSE k \in DOMAIN LowerChars : LowerChars[k] = c]
    ELSE c

\* every capitalisation of the word w
Capitalisations(w) ==
    {[k \in 1..Len(w) |-> IF k \in U THEN UpperChar(w[k]) ELSE w[k]] :
        U \in SUBSET (1..Len(w))}

\* lower case, Capitalised and UPPER CASE
ThreeCases(w) ==
    {w, [k \in 1..Len(w) |-> UpperChar(w[k])],
     [k \in 1..Len(w) |-> IF k = 1 THEN UpperChar(w[k]) ELSE w[k]]}

s_moderator == <<"m","o","d","e","r","a","t","o","r">>
s_speaker_2 == <<"s","p","e","a","k","e","r"," ","2">>
s_s2        == <<"s","2">>

LabelAtoms ==
    {s_host, s_guest, s_cohost, s_co_host, s_s1, s_s2, s_s3, s_speaker_1,
     s_speaker_2, s_speaker_3, <<"s","p","e","a","k","e","r","1">>,
     s_moderator, <<"n","a","r","r","a","t","o","r">>}

\* speaker labels a provider may use in a JSON turn
JsonLabels ==
    UNION {Capitalisations(w) : w \in {s_host, s_guest, s_cohost, s_s1, s_s3}}
    \cup UNION {ThreeCases(w) : w \in LabelAtoms}
    \cup {a \o <<" ">> \o b : a \in LabelAtoms, b \in LabelAtoms}
    \cup {<<>>, s_host \o <<" ">>}

\* the canonical role set of the data model
CanonicalRoles == {s_host, s_guest, s_cohost, s_moderator}

t_hi == <<"H","i">>
t_ok == <<"O","k","?">>
JsonTexts == {t_hi, t_ok, <<" ">> \o t_hi \o <<" ">>, <<" ">>}

JsonTurnData == [speaker : CanonicalRoles, text : JsonTexts]

JsonTurnLists == UNION {[1..n -> JsonTurnData] : n \in 0..MaxJsonTurns}

JsonObjects ==
    {[turns |-> ts] : ts \in JsonTurnLists}
    \cup {[title |-> "T", turns |-> ts] : ts \in {x \in JsonTurnLists : Len(x) <= 1}}
    \cup {[turns |-> <<[speaker |-> l, text |-> t_hi]>>] : l \in JsonLabels}
    \cup {[title |-> "T"],
          [turns |-> <<[speaker |-> s_host]>>],
          [turns |-> <<[text |-> t_hi]>>],
          [turns |-> <<[speaker |-> s_host, text |-> t_hi], [text |-> t_hi]>>]}

JsonResponses ==
    {[json |-> o, text |-> <<>>] : o \in JsonObjects}
    \cup {[json |-> EmptyObject, text |-> <<"{","}">>]}

l_Host    == <<"H","o","s","t">>
l_Guest   == <<"G","u","e","s","t">>
t_hello   == <<"H","e","l","l","o"," ","t","h","e","r","e",".">>
t_hi_bang == <<"H","i","!">>
t_great   == <<"G","r","e","a","t",".">>
t_welcome == <<"W","e","l","c","o","m","e"," ","t","o"," ","t","h","e"," ","s","h","o","w">>

SpanLabels == {l_Host, l_Guest, <<"C","o","h","o","s","t">>}
SpanTexts  == {t_hello, t_hi_bang, t_great}

\* "Label: text" spans separated by one space
RECURSIVE JoinSpans(_)
JoinSpans(spans) ==
    IF spans = <<>> THEN <<>>
    ELSE Head(spans)[1] \o <<":", " ">> \o Head(spans)[2]
         \o (IF Len(spans) > 1 THEN <<" ">> ELSE <<>>)
         \o JoinSpans(Tail(spans))

\* the response of the parser's fallback example:
\* "Host: Hello there. Guest: Hi! Host: Great."
ExampleResponse ==
    JoinSpans(<<<<l_Host, t_hello>>, <<l_Guest, t_hi_bang>>, <<l_Host, t_great>>>>)

FallbackLabels ==
    UNION {ThreeCases(w) : w \in {s_host, s_guest, s_cohost, s_co_host, s_s1,
                                  s_s2, s_s3, s_speaker_1, s_speaker_2,
                                  s_speaker_3}}

TextBodies ==
    {JoinSpans(sp) : sp \in UNION {[1..n -> SpanLabels \X SpanTexts] :
                                      n \in 1..MaxSpans}}
    \cup {JoinSpans(<<<<l, t_welcome>>>>) : l \in FallbackLabels}
    \cup {<<>>, t_hello,
          <<"H","o","s","t",":"," ","a","b","c","d","e","f"," ","S","1",":"," ","g","h","i","j","k","l">>,
          <<"[">> \o l_Host \o <<"]", " ">> \o t_welcome}

TextResponses == {[json |-> None, text |-> b] : b \in TextBodies}

\* "Host: Welcome to the show {}": not JSON as a whole, and the span the
\* first pattern of _extract_json finds in it is the empty object
ParseInputs ==
    JsonResponses \cup TextResponses
    \cup {[json |-> EmptyObject,
           text |-> JoinSpans(<<<<l_Host, t_welcome>>>>) \o <<" ", "{", "}">>]}

(***************************************************************************)
(* Idle values of the state a specification does not exercise              *)
(***************************************************************************)
GenIdle ==
    /\ model = DEFAULT_MODEL
    /\ total_requests = 0
    /\ failed_requests = 0
    /\ total_tokens = 0
    /\ pc = "idle"
    /\ attempt = 0
    /\ outcomes = <<>>
    /\ result = None
    /\ error = None
    /\ start_stats = None
    /\ call_args = None
    /\ gen_op = "none"

ParseIdle ==
    /\ response_text = None
    /\ parse_pc = "idle"
    /\ parsed = None

AudioIdle ==
    /\ dialogue = <<>>
    /\ add_pauses = TRUE
    /\ turn_index = 0
    /\ audio_segments = <<>>
    /\ previous_speaker = NoSpeaker
    /\ synth = <<>>
    /\ audio_pc = "idle"
    /\ audio_metadata = None

PipeIdle ==
    /\ document = None
    /\ options = None
    /\ pipe_pc = "idle"
    /\ pipe_dialogue = None
    /\ stages = <<>>
    /\ pipe_result = None

VoiceIdle ==
    /\ voice_input = <<>>
    /\ voice_role = <<>>
    /\ voice_pc = "idle"
    /\ voice_config = None

UsageIdle ==
    /\ records = <<>>
    /\ provider_calls = <<>>

NoThread == 0

TrackIdle ==
    /\ usage_file = None
    /\ tracker_lock = NoThread
    /\ thread_pc = <<>>
    /\ thread_data = <<>>

ApiIdle ==
    /\ now = 0
    /\ generation_jobs = <<>>
    /\ doc_files = <<>>
    /\ background_tasks = <<>>
    /\ handlers = <<>>

(***************************************************************************)
(* SpecParse: _parse_and_validate_response applied to one response         *)
(***************************************************************************)
InitParse ==
    /\ response_text \in ParseInputs
    /\ parse_pc = "start"
    /\ parsed = None
    /\ GenIdle
    /\ AudioIdle
    /\ PipeIdle
    /\ VoiceIdle
    /\ UsageIdle
    /\ TrackIdle
    /\ ApiIdle

ParseResponse ==
    /\ parse_pc = "start"
    /\ parsed' = ParseAndValidateResponse(response_text,
                                          LENGTH_CONFIGS["5min"],
                                          DEFAULT_MODEL, 0)
    /\ parse_pc' = "done"
    /\ UNCHANGED <<response_text, genVars, audioVars, pipeVars, voiceVars,
                   usageVars,
                   trackVars, apiVars>>

NextParse == ParseResponse

SpecParse == InitParse /\ [][NextParse]_vars

(***************************************************************************)
(* SpecGen: a TogetherLLMGenerator instance, its generate_podcast_dialogue *)
(* calls (one step per attempt of the retry loop) and reset_statistics     *)
(***************************************************************************)
MaxRequests == 6   \* no call starts unless its 3 attempts fit under this
UsageTokens == 1   \* response.usage.total_tokens of a response that has one

STYLE_SYSTEM_PROMPTS ==
    {"conversational", "expert-panel", "debate", "interview",
     "conversational-3speaker", "expert-panel-3speaker", "debate-3speaker",
     "interview-3speaker"}

\* ---- arguments of generate_podcast_dialogue; doc_len is
\* len(document_text.strip())
DefaultArgs ==
    [doc_len |-> 100, length |-> "10min", custom_prompt |-> FALSE,
     style |-> "conversational", num_speakers |-> 2]

CallArgs ==
    {[DefaultArgs EXCEPT !.doc_len = d] : d \in {0, 99, 100}}
    \cup {[DefaultArgs EXCEPT !.length = l] : l \in {"5min", "30min"}}
    \cup {[DefaultArgs EXCEPT !.num_speakers = n] : n \in 1..4}
    \cup {[DefaultArgs EXCEPT !.style = st] :
             st \in {"debate", "conversational-3speaker", "monologue"}}
    \cup {[DefaultArgs EXCEPT !.num_speakers = 3, !.style = "monologue"],
          [DefaultArgs EXCEPT !.custom_prompt = TRUE, !.style = "monologue"]}

\* the key of STYLE_SYSTEM_PROMPTS the call selects
PromptKey(args) ==
    IF args.num_speakers = 3
       /\ (args.style \o "-3speaker") \in STYLE_SYSTEM_PROMPTS
    THEN args.style \o "-3speaker"
    ELSE args.style

\* mutant of InputError: the speaker count is not validated
InputError_AnySpeakerCount(args) ==
    IF args.doc_len < 100
    THEN [type |-> "ValueError",
          msg  |-> "Document text must be at least 100 characters"]
    ELSE IF args.length \notin DOMAIN LENGTH_CONFIGS
    THEN [type |-> "ValueError", msg |-> "Length must be one of"]
    ELSE IF ~args.custom_prompt /\ PromptKey(args) \notin STYLE_SYSTEM_PROMPTS
    THEN [type |-> "ValueError", msg |-> "Style not found in prompts"]
    ELSE None

\* the input validation: the ValueError raised, or None
InputError(args) ==
    IF args.doc_len < 100
    THEN [type |-> "ValueError",
          msg  |-> "Document text must be at least 100 characters"]
    ELSE IF args.length \notin DOMAIN LENGTH_CONFIGS
    THEN [type |-> "ValueError", msg |-> "Length must be one of"]
    ELSE IF args.num_speakers \notin {2, 3}
    THEN [type |-> "ValueError", msg |-> "num_speakers must be 2 or 3"]
    ELSE IF ~args.custom_prompt /\ PromptKey(args) \notin STYLE_SYSTEM_PROMPTS
    THEN [type |-> "ValueError", msg |-> "Style not found in prompts"]
    ELSE None

\* ---- what the provider does with one request: client...create raises, or
\* returns a response with a content (None: empty) and a token usage
\* (0: the response has no usage attribute)
j_dialogue == [turns |-> <<[speaker |-> s_host, text |-> t_hi],
                           [speaker |-> s_guest, text |-> t_ok]>>]
j_missing_turns == [title |-> "T"]

GenContents ==
    {[json |-> o, text |-> <<>>] :
        o \in {j_dialogue, j_missing_turns,
               [turns |-> <<>>],
               [turns |-> <<[speaker |-> s_host, text |-> t_hi],
                            [speaker |-> s_host, text |-> t_ok]>>],
               [turns |-> <<[speaker |-> s_host, text |-> t_hi],
                            [speaker |-> s_guest, text |-> <<" ">>]>>],
               [turns |-> <<[speaker |-> s_host, text |-> t_hi],
                            [speaker |-> s_guest, text |-> t_ok],
                            [speaker |-> <<"S", "3">>, text |-> t_hi]>>]}}

ProviderOutcomes ==
    {[kind |-> "raises"]}
    \cup {[kind |-> "response", usage |-> UsageTokens, content |-> c] :
             c \in GenContents \cup {None}}
    \cup {[kind |-> "response", usage |-> 0,
           content |-> [json |-> j_dialogue, text |-> <<>>]]}

\* mutant of CountRequest: the request is not counted
CountRequest_Forgotten(n) == n

\* `self.total_requests += 1`
CountRequest(n) == n + 1

\* mutant of CountFailure: the failure is not counted
CountFailure_Forgotten(n) == n

\* `self.failed_requests += 1`
CountFailure(n) == n + 1

\* _call_together_api after the request: the content returned, or the
\* message of the RuntimeError raised
ApiResult(outcome) ==
    IF outcome.kind = "raises"
    THEN [ok |-> FALSE,
          error |-> "Together API call failed: provider error"]
    ELSE IF outcome.content = None
    THEN [ok |-> FALSE,
          error |-> "Together API call failed: Empty response from API"]
    ELSE [ok |-> TRUE, content |-> outcome.content]

\* the tokens _call_together_api adds to self.total_tokens
ApiTokens(outcome) ==
    IF outcome.kind = "response" THEN outcome.usage ELSE 0

\* the body of the try block of one attempt: the dialogue, or the message
\* of the exception e the except clause catches
TryAttempt(outcome, config, self_model, self_tokens) ==
    IF ApiResult(outcome).ok
    THEN ParseAndValidateResponse(ApiResult(outcome).content, config,
                                  self_model, self_tokens)
    ELSE ApiResult(outcome)

\* mutant of RetriesRemain: one attempt too many is allowed
RetriesRemain_OffByOne(att) == att < MAX_RETRIES

\* `if attempt < self.MAX_RETRIES - 1`
RetriesRemain(att) == att < MAX_RETRIES - 1

\* RuntimeError(f"Failed to generate dialogue after ... attempts: {e}")
ExhaustedError(e) ==
    [type |-> "RuntimeError",
     msg  |-> "Failed to generate dialogue after 3 attempts",
     cause |-> e]

\* mutant of ModelAfterFailure: the second failure toggles between the two
\* models
ModelAfterFailure_Toggle(att, self_model) ==
    IF att # 1 THEN self_model
    ELSE IF self_model = FALLBACK_MODEL THEN DEFAULT_MODEL
    ELSE FALLBACK_MODEL

\* the model after a failed attempt that will be retried
ModelAfterFailure(att, self_model) ==
    IF att = 1 /\ self_model # FALLBACK_MODEL THEN FALLBACK_MODEL
    ELSE self_model

Stats ==
    [total_requests |-> total_requests, failed_requests |-> failed_requests,
     total_tokens |-> total_tokens, model |-> model]

BetweenCalls == pc \in {"idle", "returned", "raised"}

InitGen ==
    /\ model \in {DEFAULT_MODEL, FALLBACK_MODEL}
    /\ total_requests = 0
    /\ failed_requests = 0
    /\ total_tokens = 0
    /\ pc = "idle"
    /\ attempt = 0
    /\ outcomes = <<>>
    /\ result = None
    /\ error = None
    /\ start_stats = None
    /\ call_args = None
    /\ gen_op = "none"
    /\ ParseIdle
    /\ AudioIdle
    /\ PipeIdle
    /\ VoiceIdle
    /\ UsageIdle
    /\ TrackIdle
    /\ ApiIdle

\* generate_podcast_dialogue up to the retry loop
CallGenerate ==
    \E args \in CallArgs :
        /\ BetweenCalls
        /\ total_requests + MAX_RETRIES <= MaxRequests
        /\ call_args' = args
        /\ start_stats' = Stats
        /\ outcomes' = <<>>
        /\ attempt' = 0
        /\ result' = None
        /\ error' = InputError(args)
        /\ pc' = IF InputError(args) = None THEN "attempt" ELSE "raised"
        /\ gen_op' = "call"
        /\ UNCHANGED <<model, total_requests, failed_requests, total_tokens,
                       parseVars, audioVars, pipeVars, voiceVars,
                       usageVars,
                       trackVars, apiVars>>

\* one iteration of `for attempt in range(self.MAX_RETRIES)`
Attempt ==
    \E outcome \in ProviderOutcomes :
        LET tokens == total_tokens + ApiTokens(outcome)
            tried  == TryAttempt(outcome, LENGTH_CONFIGS[call_args.length],
                                 model, tokens)
        IN  /\ pc = "attempt"
            /\ total_requests' = CountRequest(total_requests)
            /\ total_tokens' = tokens
            /\ outcomes' = Append(outcomes, outcome)
            /\ IF tried.ok
               THEN /\ result' = tried.dialogue
                    /\ pc' = "returned"
                    /\ UNCHANGED <<failed_requests, model, attempt, error>>
               ELSE /\ failed_requests' = CountFailure(failed_requests)
                    /\ IF RetriesRemain(attempt)
                       THEN /\ model' = ModelAfterFailure(attempt, model)
                            /\ attempt' = attempt + 1
                            \* the for loop ends when its range is used up,
                            \* and the function then returns None
                            /\ pc' = IF attempt + 1 < MAX_RETRIES
                                     THEN "attempt" ELSE "returned"
                            /\ UNCHANGED <<result, error>>
                       ELSE /\ error' = ExhaustedError(tried.error)
                            /\ pc' = "raised"
                            /\ UNCHANGED <<result, model, attempt>>
            /\ gen_op' = "attempt"
            /\ UNCHANGED <<start_stats, call_args, parseVars, audioVars,
                           pipeVars, voiceVars, usageVars,
                           trackVars, apiVars>>

\* reset_statistics
ResetStatistics ==
    /\ BetweenCalls
    /\ total_requests' = 0
    /\ failed_requests' = 0
    /\ total_tokens' = 0
    /\ gen_op' = "reset"
    /\ UNCHANGED <<model, pc, attempt, outcomes, result, error, start_stats,
                   call_args, parseVars, audioVars, pipeVars, voiceVars,
                   usageVars,
                   trackVars, apiVars>>

NextGen == CallGenerate \/ Attempt \/ ResetStatistics

SpecGen == InitGen /\ [][NextGen]_vars

(***************************************************************************)
(* SpecAudio: one CartesiaTTSGenerator.generate_and_save call, one step    *)
(* per iteration of the loop of generate_podcast_audio                     *)
(***************************************************************************)
MaxTurns == 3   \* longest input turn list

PAUSE_BETWEEN_TURNS  == 800
PAUSE_SAME_SPEAKER   == 400
PAUSE_AFTER_QUESTION == 500
PAUSE_INTRO_OUTRO    == 1200

TurnTexts == {<<" ">>, <<"Y","e","s",".">>, <<"W","h","y","?"," ">>}

Turns ==
    [speaker : {"host", "guest"}, text : TurnTexts,
     segment_type : {"intro", "dialogue", "outro"}]

Dialogues == UNION {[1..n -> Turns] : n \in 0..MaxTurns}

\* track_generation: the UsageRecord appended (without its timestamp and
\* its cost estimate)
UsageRecord(service, model_, tokens_used, characters_generated, operation) ==
    [service |-> service, model |-> model_, tokens_used |-> tokens_used,
     characters_generated |-> characters_generated, operation |-> operation]

\* what the TTS provider does with one request: an answer that is ok, an
\* answer with an error status, or a requests exception
TtsOutcomes == {"ok", "http_error", "request_exception"}

\* the records after generate_speech(text, ...) met this outcome
TrackSpeech(recs, text, outcome) ==
    IF outcome = "ok"
    THEN Append(recs, UsageRecord("tts", "cartesia-sonic", 0, Len(text),
                                  "podcast_tts_generation"))
    ELSE recs

\* mutant of Skipped: no turn is skipped
Skipped_Never(text) == FALSE

\* `if not text.strip(): continue`
Skipped(text) == Strip(text) = <<>>

\* `text.rstrip().endswith('?')`
IsQuestion(text) == EndsWith(RStrip(text), "?")

\* mutant of PauseBefore: the speaker change is tested before the segment
\* type
PauseBefore_SpeakerFirst(turn, prev) ==
    IF turn.speaker # prev THEN PAUSE_BETWEEN_TURNS
    ELSE IF turn.segment_type = "intro" THEN PAUSE_INTRO_OUTRO
    ELSE IF turn.segment_type = "outro" THEN PAUSE_INTRO_OUTRO
    ELSE IF IsQuestion(turn.text) THEN PAUSE_AFTER_QUESTION
    ELSE PAUSE_SAME_SPEAKER

\* the duration of the pause created before the segment of `turn`, prev
\* being the local previous_speaker
PauseBefore(turn, prev) ==
    IF turn.segment_type = "intro" THEN PAUSE_INTRO_OUTRO
    ELSE IF turn.segment_type = "outro" THEN PAUSE_INTRO_OUTRO
    ELSE IF turn.speaker # prev THEN PAUSE_BETWEEN_TURNS
    ELSE IF IsQuestion(turn.text) THEN PAUSE_AFTER_QUESTION
    ELSE PAUSE_SAME_SPEAKER

Pause(ms) == [kind |-> "pause", duration |-> ms]
Speech(i, turn) ==
    [kind |-> "speech", turn |-> i, speaker |-> turn.speaker,
     text |-> turn.text]

\* `if add_pauses and i > 1`
WithPause(pauses, i) == pauses /\ i > 1

\* mutant of AppendSegment: the pause goes after the speech
AppendSegment_PauseAfter(segments, i, turn, prev, pauses) ==
    IF WithPause(pauses, i)
    THEN segments \o <<Speech(i, turn), Pause(PauseBefore(turn, prev))>>
    ELSE Append(segments, Speech(i, turn))

\* audio_segments after the try block of a turn whose synthesis succeeded
AppendSegment(segments, i, turn, prev, pauses) ==
    IF WithPause(pauses, i)
    THEN segments \o <<Pause(PauseBefore(turn, prev)), Speech(i, turn)>>
    ELSE Append(segments, Speech(i, turn))

\* the metadata dictionary built by generate_and_save
Metadata(dlg) ==
    [format |-> "wav", num_segments |-> Len(dlg),
     voices |-> {"host", "guest"}]

InitAudio ==
    /\ dialogue \in Dialogues
    /\ add_pauses \in BOOLEAN
    /\ turn_index = 0
    /\ audio_segments = <<>>
    /\ previous_speaker = NoSpeaker
    /\ synth = <<>>
    /\ audio_pc = "loop"
    /\ audio_metadata = None
    /\ GenIdle
    /\ ParseIdle
    /\ PipeIdle
    /\ VoiceIdle
    /\ UsageIdle
    /\ TrackIdle
    /\ ApiIdle

\* an iteration for a turn whose text is empty after strip()
SkipTurn ==
    /\ audio_pc = "loop"
    /\ turn_index < Len(dialogue)
    /\ Skipped(dialogue[turn_index + 1].text)
    /\ turn_index' = turn_index + 1
    /\ synth' = Append(synth, "skipped")
    /\ UNCHANGED <<dialogue, add_pauses, audio_segments, previous_speaker,
                   audio_pc, audio_metadata, genVars, parseVars,
                   pipeVars, voiceVars, usageVars,
                   trackVars, apiVars>>

\* an iteration whose generate_speech and from_wav calls succeed
SynthesizeTurn ==
    /\ audio_pc = "loop"
    /\ turn_index < Len(dialogue)
    /\ ~Skipped(dialogue[turn_index + 1].text)
    /\ turn_index' = turn_index + 1
    /\ synth' = Append(synth, "ok")
    /\ audio_segments' = AppendSegment(audio_segments, turn_index + 1,
                                       dialogue[turn_index + 1],
                                       previous_speaker, add_pauses)
    /\ previous_speaker' = dialogue[turn_index + 1].speaker
    /\ records' = TrackSpeech(records, dialogue[turn_index + 1].text, "ok")
    /\ UNCHANGED <<dialogue, add_pauses, audio_pc, audio_metadata, genVars,
                   parseVars, pipeVars, voiceVars, provider_calls,
                   trackVars, apiVars>>

\* an iteration whose generate_speech raises: the error is printed, the
\* loop continues
FailTurn ==
    /\ audio_pc = "loop"
    /\ turn_index < Len(dialogue)
    /\ ~Skipped(dialogue[turn_index + 1].text)
    /\ turn_index' = turn_index + 1
    /\ synth' = Append(synth, "failed")
    /\ records' = TrackSpeech(records, dialogue[turn_index + 1].text,
                              "http_error")
    /\ UNCHANGED <<dialogue, add_pauses, audio_segments, previous_speaker,
                   audio_pc, audio_metadata, genVars, parseVars,
                   pipeVars, voiceVars, provider_calls,
                   trackVars, apiVars>>

\* after the loop: generate_podcast_audio raises or returns the combined
\* audio, and generate_and_save builds the metadata
FinishAudio ==
    /\ audio_pc = "loop"
    /\ turn_index = Len(dialogue)
    /\ IF audio_segments = <<>>
       THEN /\ audio_pc' = "raised"
            /\ UNCHANGED audio_metadata
       ELSE /\ audio_pc' = "returned"
            /\ audio_metadata' = Metadata(dialogue)
    /\ UNCHANGED <<dialogue, add_pauses, turn_index, audio_segments,
                   previous_speaker, synth, genVars, parseVars, pipeVars,
                   voiceVars, usageVars,
                   trackVars, apiVars>>

NextAudio == SkipTurn \/ SynthesizeTurn \/ FailTurn \/ FinishAudio

SpecAudio == InitAudio /\ [][NextAudio]_vars

(***************************************************************************)
(* SpecPipeline: one TogetherNotebookLM.create_podcast call, one step per  *)
(* numbered step of the method                                             *)
(***************************************************************************)
MaxPipelineTurns == 9   \* longest dialogue the generator hands to the pipeline

MIN_DIALOGUE_TURNS == 8

\* ---- PodcastOptions
DefaultOptions ==
    [length |-> "10min", style |-> "conversational", save_script |-> TRUE,
     host_voice |-> "host_male_friendly",
     guest_voice |-> "guest_female_expert", output_format |-> "mp3"]


\* ---- what document_path holds: no file, a file whose stripped text has
\* fewer than 100 characters, or a longer one

\* process_document: the message of the exception raised, or None
ProcessDocumentError(doc) ==
    IF ~doc.exists THEN "Document not found"
    ELSE IF doc.length < 100
    THEN "Document is too short (minimum 100 characters)"
    ELSE NoText

\* estimate_cost: int(options.length.replace('min', '')) raises ValueError
\* unless what precedes 'min' is a number
EstimateError(opts) ==
    IF opts.length \in {"5min", "10min", "15min", "20min", "30min"}
    THEN NoText
    ELSE "invalid literal for int() with base 10"

\* the arguments create_podcast passes to generate_podcast_dialogue
GenerateArgs(doc, opts) ==
    [doc_len |-> doc.length, length |-> opts.length, custom_prompt |-> FALSE,
     style |-> opts.style, num_speakers |-> 2]

\* ---- the dialogues generate_podcast_dialogue may return: n turns whose
\* speakers follow a cycle of roles, one of them possibly of empty or blank text

CycleTurn(cycle, k, text) ==
    [speaker |-> cycle[((k - 1) % Len(cycle)) + 1], text |-> text,
     turn_number |-> k]

CycleDialogue(n, cycle, blank_at, blank) ==
    [title |-> DefaultTitle,
     turns |-> [k \in 1..n |->
                   CycleTurn(cycle, k, IF k = blank_at THEN blank ELSE t_hi)],
     metadata |-> [model |-> DEFAULT_MODEL, total_turns |-> n,
                   total_tokens |-> 0]]

PipelineDialogues ==
    {CycleDialogue(n, cycle, blank_at, blank) :
        n \in 0..MaxPipelineTurns,
        cycle \in {<<"host">>, <<"host", "guest">>,
                   <<"host", "guest", "cohost">>},
        blank_at \in 0..MaxPipelineTurns, blank \in {<<>>, <<" ", " ">>}}

\* `if len(dialogue.turns) < 8`
TooShort(turns) == Len(turns) < MIN_DIALOGUE_TURNS

\* mutant of HasEmptyTurn: only the first turn is looked at
HasEmptyTurn_FirstOnly(turns) ==
    turns # <<>> /\ Strip(turns[1].text) = <<>>

\* `for turn in dialogue.turns: if not turn.text.strip()`
HasEmptyTurn(turns) ==
    \E k \in DOMAIN turns : Strip(turns[k].text) = <<>>

\* validate_dialogue: the message of the ValueError raised, or None when it
\* returns True
ValidateDialogue(dlg) ==
    IF TooShort(dlg.turns) THEN "Dialogue too short"
    ELSE IF Cardinality({dlg.turns[k].speaker : k \in DOMAIN dlg.turns}) < 2
    THEN "Dialogue must have both host and guest speakers"
    ELSE IF HasEmptyTurn(dlg.turns) THEN "Found empty dialogue turn"
    ELSE NoText

\* enhance_dialogue
EnhanceDialogue(dlg) ==
    [k \in 1..Len(dlg.turns) |->
        [speaker |-> dlg.turns[k].speaker, text |-> dlg.turns[k].text,
         turn_number |-> dlg.turns[k].turn_number,
         segment_type |-> IF k = 1 THEN "intro"
                          ELSE IF k = Len(dlg.turns) THEN "outro"
                          ELSE "dialogue"]]

\* the genders of the voice presets the options above name
PresetGender ==
    [host_male_friendly |-> "male", guest_female_expert |-> "female",
     guest_male |-> "male"]

\* the guest voice handed to the TTS generator: for a debate two presets of
\* the same gender are told apart
GuestVoice(opts) ==
    IF opts.style = "debate"
       /\ opts.host_voice \in DOMAIN PresetGender
       /\ opts.guest_voice \in DOMAIN PresetGender
       /\ PresetGender[opts.host_voice] = PresetGender[opts.guest_voice]
    THEN IF PresetGender[opts.host_voice] = "male"
         THEN "guest_female_expert" ELSE "guest_male"
    ELSE opts.guest_voice

\* mutant of Failure: the exception is reported as a success
Failure_Swallowed(e) ==
    [success |-> TRUE, audio_file |-> NoText, script_file |-> NoText,
     metadata |-> [generation_time |-> "elapsed"], error |-> NoText]

\* the PodcastResult of the except clause
Failure(e) ==
    [success |-> FALSE, audio_file |-> NoText, script_file |-> NoText,
     metadata |-> [generation_time |-> "elapsed"],
     error |-> "Podcast generation failed: " \o e]

\* the PodcastResult of step 5
Success(dlg, opts, script_file, audio_metadata_) ==
    [success |-> TRUE,
     audio_file |-> "podcast." \o opts.output_format,
     script_file |-> script_file,
     metadata |-> [audio |-> audio_metadata_, title |-> dlg.title,
                   total_turns |-> Len(dlg.turns),
                   voices |-> [host |-> opts.host_voice,
                               guest |-> GuestVoice(opts)]],
     error |-> NoText]

InitPipeline ==
    /\ document \in {[exists |-> FALSE, length |-> 0],
                     [exists |-> TRUE, length |-> 99],
                     [exists |-> TRUE, length |-> 100]}
    /\ options \in
          {[DefaultOptions EXCEPT !.length = l] :
              l \in {"5min", "10min", "30min", "long"}}
          \cup {[DefaultOptions EXCEPT !.style = st] :
                   st \in {"debate", "monologue"}}
          \cup {[DefaultOptions EXCEPT !.save_script = FALSE],
                [DefaultOptions EXCEPT !.style = "debate",
                                       !.guest_voice = "guest_male"],
                [DefaultOptions EXCEPT !.guest_voice = "my_voice"]}
    /\ pipe_pc = "process_document"
    /\ pipe_dialogue = None
    /\ stages = <<>>
    /\ pipe_result = None
    /\ GenIdle
    /\ ParseIdle
    /\ AudioIdle
    /\ VoiceIdle
    /\ UsageIdle
    /\ TrackIdle
    /\ ApiIdle

\* a step that raised: the except clause builds the result and returns
Fail(stage, e) ==
    /\ stages' = Append(stages, stage)
    /\ pipe_result' = Failure(e)
    /\ pipe_pc' = "done"

\* step 1: process_document and estimate_cost
ProcessDocument ==
    /\ pipe_pc = "process_document"
    /\ IF ProcessDocumentError(document) # NoText
       THEN Fail("process_document", ProcessDocumentError(document))
       ELSE IF EstimateError(options) # NoText
       THEN Fail("process_document", EstimateError(options))
       ELSE /\ stages' = Append(stages, "process_document")
            /\ pipe_pc' = "generate"
            /\ UNCHANGED pipe_result
    /\ UNCHANGED <<document, options, pipe_dialogue, genVars, parseVars,
                   audioVars, voiceVars, usageVars,
                   trackVars, apiVars>>

\* step 2, first half: generate_podcast_dialogue rejects its input, gives up
\* after its retries, or returns a dialogue
GenerateScript ==
    /\ pipe_pc = "generate"
    /\ IF InputError(GenerateArgs(document, options)) # None
       THEN /\ Fail("generate", InputError(GenerateArgs(document, options)).msg)
            /\ UNCHANGED pipe_dialogue
       ELSE \/ /\ Fail("generate", "Failed to generate dialogue after 3 attempts")
               /\ UNCHANGED pipe_dialogue
            \/ \E dlg \in PipelineDialogues :
                  /\ pipe_dialogue' = dlg
                  /\ stages' = Append(stages, "generate")
                  /\ pipe_pc' = "validate"
                  /\ UNCHANGED pipe_result
    /\ UNCHANGED <<document, options, genVars, parseVars, audioVars,
                   voiceVars, usageVars,
                   trackVars, apiVars>>

\* step 2, second half: validate_dialogue
Validate ==
    /\ pipe_pc = "validate"
    /\ IF ValidateDialogue(pipe_dialogue) # NoText
       THEN Fail("validate", ValidateDialogue(pipe_dialogue))
       ELSE /\ stages' = Append(stages, "validate")
            /\ pipe_pc' = "enhance"
            /\ UNCHANGED pipe_result
    /\ UNCHANGED <<document, options, pipe_dialogue, genVars, parseVars,
                   audioVars, voiceVars, usageVars,
                   trackVars, apiVars>>

\* step 3: enhance_dialogue and, if asked for, _save_script, which may fail
\* to write
Enhance ==
    /\ pipe_pc = "enhance"
    /\ \/ /\ stages' = Append(stages, "enhance")
          /\ pipe_pc' = "audio"
          /\ UNCHANGED pipe_result
       \/ /\ options.save_script
          /\ Fail("enhance", "cannot write the script file")
    /\ UNCHANGED <<document, options, pipe_dialogue, genVars, parseVars,
                   audioVars, voiceVars, usageVars,
                   trackVars, apiVars>>

\* steps 4 and 5: a TTS generator is built, generate_and_save raises (no
\* segment, or the file cannot be written) or returns, and the result is made
GenerateAudio ==
    /\ pipe_pc = "audio"
    /\ \/ \E e \in {"No audio segments were generated successfully",
                    "cannot write the audio file"} : Fail("audio", e)
       \/ /\ stages' = Append(stages, "audio")
          /\ pipe_result' =
                Success(pipe_dialogue, options,
                        IF options.save_script THEN "script.json" ELSE NoText,
                        Metadata(EnhanceDialogue(pipe_dialogue)))
          /\ pipe_pc' = "done"
    /\ UNCHANGED <<document, options, pipe_dialogue, genVars, parseVars,
                   audioVars, voiceVars, usageVars,
                   trackVars, apiVars>>

NextPipeline ==
    ProcessDocument \/ GenerateScript \/ Validate \/ Enhance \/ GenerateAudio

SpecPipeline == InitPipeline /\ [][NextPipeline]_vars

(***************************************************************************)
(* SpecVoice: CartesiaTTSGenerator._resolve_voice applied to one input     *)
(***************************************************************************)
HexDigits ==
    {"0", "1", "2", "3", "4", "5", "6", "7", "8", "9",
     "a", "b", "c", "d", "e", "f", "A", "B", "C", "D", "E", "F"}

\* the length of [0-9a-f]{8}-[0-9a-f]{4}-[0-9a-f]{4}-[0-9a-f]{4}-[0-9a-f]{12}
UuidLength == 36

\* re.match(uuid_pattern, voice_input, re.IGNORECASE): the pattern is
\* anchored by ^ and $, and $ also matches before a newline that ends the
\* string
MatchesUuidPattern(s) ==
    /\ \/ Len(s) = UuidLength
       \/ Len(s) = UuidLength + 1 /\ s[UuidLength + 1] = "\n"
    /\ \A k \in 1..UuidLength :
          IF k \in {9, 14, 19, 24} THEN s[k] = "-" ELSE s[k] \in HexDigits

\* VOICE_PRESETS, the speed in hundredths
VOICE_PRESETS ==
    {[key |-> <<"h", "o", "s", "t", "_", "m", "a", "l", "e", "_", "f",
               "r", "i", "e", "n", "d", "l", "y">>,
      id |-> <<"6", "9", "4", "f", "9", "3", "8", "9", "-", "a", "a", "c",
              "1", "-", "4", "5", "b", "6", "-", "b", "7", "2", "6", "-",
              "9", "d", "9", "3", "6", "9", "1", "8", "3", "2", "3", "8">>,
      name |-> "Confident Male", gender |-> "male",
      description |-> "Warm, friendly male host voice", speed |-> 100],
     [key |-> <<"h", "o", "s", "t", "_", "m", "a", "l", "e", "_", "c",
               "a", "s", "u", "a", "l">>,
      id |-> <<"a", "1", "6", "7", "e", "0", "f", "3", "-", "d", "f", "7",
              "e", "-", "4", "d", "9", "4", "-", "8", "5", "8", "3", "-",
              "1", "6", "4", "7", "c", "5", "d", "c", "f", "1", "5", "a">>,
      name |-> "Casual Male", gender |-> "male",
      description |-> "Relaxed, conversational male voice", speed |-> 95],
     [key |-> <<"g", "u", "e", "s", "t", "_", "f", "e", "m", "a", "l",
               "e", "_", "e", "x", "p", "e", "r", "t">>,
      id |-> <<"a", "0", "e", "9", "9", "8", "4", "1", "-", "4", "3", "8",
              "c", "-", "4", "a", "6", "4", "-", "b", "6", "7", "9", "-",
              "a", "e", "5", "0", "1", "e", "7", "d", "6", "0", "9", "1">>,
      name |-> "Professional Female", gender |-> "female",
      description |-> "Clear, authoritative female voice", speed |-> 100],
     [key |-> <<"g", "u", "e", "s", "t", "_", "f", "e", "m", "a", "l",
               "e", "_", "w", "a", "r", "m">>,
      id |-> <<"7", "9", "f", "8", "b", "5", "f", "b", "-", "2", "c", "c",
              "8", "-", "4", "7", "9", "a", "-", "8", "0", "d", "f", "-",
              "2", "9", "f", "7", "a", "7", "c", "f", "1", "a", "3", "e">>,
      name |-> "Warm Female", gender |-> "female",
      description |-> "Friendly, engaging female voice", speed |-> 100],
     [key |-> <<"h", "o", "s", "t", "_", "f", "e", "m", "a", "l", "e">>,
      id |-> <<"7", "9", "f", "8", "b", "5", "f", "b", "-", "2", "c", "c",
              "8", "-", "4", "7", "9", "a", "-", "8", "0", "d", "f", "-",
              "2", "9", "f", "7", "a", "7", "c", "f", "1", "a", "3", "e">>,
      name |-> "Female Host", gender |-> "female",
      description |-> "Warm female host", speed |-> 100],
     [key |-> <<"g", "u", "e", "s", "t", "_", "m", "a", "l", "e">>,
      id |-> <<"6", "9", "4", "f", "9", "3", "8", "9", "-", "a", "a", "c",
              "1", "-", "4", "5", "b", "6", "-", "b", "7", "2", "6", "-",
              "9", "d", "9", "3", "6", "9", "1", "8", "3", "2", "3", "8">>,
      name |-> "Male Guest", gender |-> "male",
      description |-> "Knowledgeable male expert", speed |-> 100],
     [key |-> <<"c", "o", "h", "o", "s", "t", "_", "m", "a", "l", "e",
               "_", "c", "a", "s", "u", "a", "l">>,
      id |-> <<"b", "7", "d", "5", "0", "9", "0", "8", "-", "b", "1", "7",
              "c", "-", "4", "4", "2", "d", "-", "a", "d", "8", "d", "-",
              "8", "1", "0", "c", "6", "3", "9", "9", "7", "e", "d", "9">>,
      name |-> "Casual Male Co-Host", gender |-> "male",
      description |-> "Relaxed, friendly male co-host", speed |-> 98],
     [key |-> <<"c", "o", "h", "o", "s", "t", "_", "f", "e", "m", "a",
               "l", "e", "_", "c", "a", "s", "u", "a", "l">>,
      id |-> <<"6", "3", "f", "f", "7", "6", "1", "f", "-", "c", "1", "e",
              "8", "-", "4", "1", "4", "b", "-", "b", "9", "6", "9", "-",
              "d", "1", "8", "3", "3", "d", "1", "c", "8", "7", "0", "c">>,
      name |-> "Casual Female Co-Host", gender |-> "female",
      description |-> "Warm, engaging female co-host", speed |-> 98],
     [key |-> <<"c", "o", "h", "o", "s", "t", "_", "m", "a", "l", "e",
               "_", "e", "n", "e", "r", "g", "e", "t", "i", "c">>,
      id |-> <<"4", "1", "5", "3", "4", "e", "1", "6", "-", "2", "9", "6",
              "6", "-", "4", "c", "6", "b", "-", "9", "6", "7", "0", "-",
              "1", "1", "1", "4", "1", "1", "d", "e", "f", "9", "0", "6">>,
      name |-> "Energetic Male Co-Host", gender |-> "male",
      description |-> "Dynamic, enthusiastic male voice", speed |-> 105],
     [key |-> <<"c", "o", "h", "o", "s", "t", "_", "f", "e", "m", "a",
               "l", "e", "_", "w", "a", "r", "m">>,
      id |-> <<"2", "e", "e", "8", "7", "1", "9", "0", "-", "8", "f", "8",
              "4", "-", "4", "9", "2", "5", "-", "9", "7", "d", "a", "-",
              "e", "5", "2", "5", "4", "7", "f", "9", "4", "6", "2", "c">>,
      name |-> "Warm Female Co-Host", gender |-> "female",
      description |-> "Gentle, warm female voice", speed |-> 95]}

PresetKeys == {p.key : p \in VOICE_PRESETS}

\* VOICE_PRESETS[key]
Preset(key) == CHOOSE p \in VOICE_PRESETS : p.key = key

k_host_male_friendly == <<"h", "o", "s", "t", "_", "m", "a", "l", "e",
                          "_", "f", "r", "i", "e", "n", "d", "l", "y">>
k_guest_female_expert == <<"g", "u", "e", "s", "t", "_", "f", "e", "m",
                           "a", "l", "e", "_", "e", "x", "p", "e", "r",
                           "t">>
k_cohost_male_casual == <<"c", "o", "h", "o", "s", "t", "_", "m", "a",
                          "l", "e", "_", "c", "a", "s", "u", "a", "l">>

\* the VoiceConfig made for a raw Cartesia ID
CustomVoice(v, role) ==
    [key |-> <<>>, id |-> v, name |-> <<"Custom", role, "Voice">>,
     gender |-> "neutral",
     description |-> <<"Custom Cartesia voice for", role>>, speed |-> 100]

\* the fallback of an unknown voice, by role
DefaultVoice(role) ==
    IF StrLower(role) = s_host THEN Preset(k_host_male_friendly)
    ELSE IF StrLower(role) = s_guest THEN Preset(k_guest_female_expert)
    ELSE Preset(k_cohost_male_casual)

\* _resolve_voice
ResolveVoice(v, role) ==
    IF MatchesUuidPattern(v) THEN CustomVoice(v, role)
    ELSE IF v \in PresetKeys THEN Preset(v)
    ELSE DefaultVoice(role)

\* ---- inputs

\* a string and what a slip of the hand makes of it
Variants(u) ==
    {u, Append(u, "\n"), Append(u, " "), <<" ">> \o u,
     SubSeq(u, 1, Len(u) - 1), [u EXCEPT ![1] = "g"],
     [u EXCEPT ![9] = "0"], u \o <<"\n", "\n">>}



InitVoice ==
    /\ voice_input \in
          Variants(<<"c", "4", "5", "b", "c", "5", "e", "c", "-", "d", "c", "6",
                     "8", "-", "4", "f", "e", "b", "-", "8", "8", "2", "9", "-",
                     "6", "e", "6", "b", "2", "7", "4", "8", "0", "9", "5", "d">>)
          \cup Variants(<<"C", "4", "5", "B", "C", "5", "E", "C", "-", "D", "C",
                          "6", "8", "-", "4", "F", "E", "B", "-", "8", "8", "2",
                          "9", "-", "6", "E", "6", "B", "2", "7", "4", "8", "0",
                          "9", "5", "D">>)
          \cup PresetKeys \cup Variants(k_host_male_friendly) \cup {<<>>}
    /\ voice_role \in
          {<<"H","o","s","t">>, <<"G","u","e","s","t">>,
           <<"C","o","-","H","o","s","t">>,
           <<"M","o","d","e","r","a","t","o","r">>,
           <<"S","p","e","a","k","e","r">>, s_host, <<"G","U","E","S","T">>}
    /\ voice_pc = "start"
    /\ voice_config = None
    /\ GenIdle
    /\ ParseIdle
    /\ AudioIdle
    /\ PipeIdle
    /\ UsageIdle
    /\ TrackIdle
    /\ ApiIdle

Resolve ==
    /\ voice_pc = "start"
    /\ voice_config' = ResolveVoice(voice_input, voice_role)
    /\ voice_pc' = "returned"
    /\ UNCHANGED <<voice_input, voice_role, genVars, parseVars, audioVars,
                   pipeVars, usageVars,
                   trackVars, apiVars>>

NextVoice == Resolve

SpecVoice == InitVoice /\ [][NextVoice]_vars

(***************************************************************************)
(* SpecUsage: the provider calls of both generators, one step per call of  *)
(* _call_together_api or generate_speech, and the usage tracker's records  *)
(***************************************************************************)
MaxCalls == 4   \* most provider calls of a run

InitUsage ==
    /\ records = <<>>
    /\ provider_calls = <<>>
    /\ TrackIdle
    /\ ApiIdle
    /\ GenIdle
    /\ ParseIdle
    /\ AudioIdle
    /\ PipeIdle
    /\ VoiceIdle

\* one _call_together_api
LlmCall ==
    \E outcome \in ProviderOutcomes :
        /\ Len(provider_calls) < MaxCalls
        /\ total_requests' = CountRequest(total_requests)
        /\ total_tokens' = total_tokens + ApiTokens(outcome)
        /\ provider_calls' =
              Append(provider_calls,
                     [service |-> "llm", ok |-> ApiResult(outcome).ok,
                      characters |-> 0])
        /\ UNCHANGED <<records, model, failed_requests, pc, attempt, outcomes,
                       result, error, start_stats, call_args, gen_op,
                       parseVars, audioVars, pipeVars, voiceVars,
                       trackVars, apiVars>>

\* one generate_speech
TtsCall ==
    \E text \in TurnTexts, outcome \in TtsOutcomes :
        /\ Len(provider_calls) < MaxCalls
        /\ records' = TrackSpeech(records, text, outcome)
        /\ provider_calls' =
              Append(provider_calls,
                     [service |-> "tts", ok |-> outcome = "ok",
                      characters |-> Len(text)])
        /\ UNCHANGED <<genVars, parseVars, audioVars, pipeVars, voiceVars,
                       trackVars, apiVars>>

NextUsage == LlmCall \/ TtsCall

SpecUsage == InitUsage /\ [][NextUsage]_vars

(***************************************************************************)
(* SpecTrack: threads calling track_generation on one TogetherUsageTracker *)
(* at once; one step per statement of the body, the file being truncated   *)
(* when _save_records opens it and filled when json.dump has written       *)
(***************************************************************************)
NumThreads == 3   \* threads that call track_generation

Threads == 1..NumThreads

\* the operation argument of the call of thread t, which tells its record
\* from every other record
ThreadOperation(t) == "call " \o ToString(t)

\* the file as _save_records leaves it, and as open(..., 'w') leaves it
SavedFile(data) == [readable |-> TRUE, data |-> data]

\* __init__ and _load_records: no file, a file holding one record, or a
\* file that cannot be read, which leaves the list empty
LoadedRecords ==
    {[file |-> SavedFile(<<>>), records |-> <<>>],
     [file |-> SavedFile(<<UsageRecord("llm", DEFAULT_MODEL, 2, 0, "loaded")>>),
      records |-> <<UsageRecord("llm", DEFAULT_MODEL, 2, 0, "loaded")>>],
     [file |-> [readable |-> FALSE, data |-> <<>>], records |-> <<>>]}

InitTrack ==
    /\ \E l \in LoadedRecords :
          /\ usage_file = l.file
          /\ records = l.records
    /\ tracker_lock = NoThread
    /\ thread_pc = [t \in Threads |-> "called"]
    /\ thread_data = [t \in Threads |-> <<>>]
    /\ provider_calls = <<>>
    /\ GenIdle
    /\ ParseIdle
    /\ AudioIdle
    /\ PipeIdle
    /\ VoiceIdle
    /\ ApiIdle

\* mutant of LockIsFree: the lock never blocks
LockIsFree_Always(holder) == TRUE

\* threading.Lock: acquire blocks while another thread holds the lock
LockIsFree(holder) == holder = NoThread

\* `with self._lock:` entered
Acquire(t) ==
    /\ thread_pc[t] = "called"
    /\ LockIsFree(tracker_lock)
    /\ tracker_lock' = t
    /\ thread_pc' = [thread_pc EXCEPT ![t] = "locked"]
    /\ UNCHANGED <<usage_file, thread_data, usageVars, genVars, parseVars,
                   audioVars, pipeVars, voiceVars, apiVars>>

\* the cost is computed, the record is created and appended
AppendRecord(t) ==
    /\ thread_pc[t] = "locked"
    /\ \E call \in {[service |-> "llm", tokens_used |-> 2,
                     characters_generated |-> 0],
                    [service |-> "tts", tokens_used |-> 0,
                     characters_generated |-> 4]} :
          records' = Append(records,
                            UsageRecord(call.service, DEFAULT_MODEL,
                                        call.tokens_used,
                                        call.characters_generated,
                                        ThreadOperation(t)))
    /\ thread_pc' = [thread_pc EXCEPT ![t] = "appended"]
    /\ UNCHANGED <<usage_file, tracker_lock, thread_data, provider_calls,
                   genVars, parseVars, audioVars, pipeVars, voiceVars,
                   apiVars>>

\* _save_records: the file is opened for writing, which empties it, and the
\* list to dump is built from self.records
OpenFile(t) ==
    /\ thread_pc[t] = "appended"
    /\ usage_file' = SavedFile(<<>>)
    /\ thread_data' = [thread_data EXCEPT ![t] = records]
    /\ thread_pc' = [thread_pc EXCEPT ![t] = "opened"]
    /\ UNCHANGED <<tracker_lock, usageVars, genVars, parseVars, audioVars,
                   pipeVars, voiceVars, apiVars>>

\* _save_records: json.dump writes the list and the file is closed
WriteFile(t) ==
    /\ thread_pc[t] = "opened"
    /\ usage_file' = SavedFile(thread_data[t])
    /\ thread_pc' = [thread_pc EXCEPT ![t] = "saved"]
    /\ UNCHANGED <<tracker_lock, thread_data, usageVars, genVars, parseVars,
                   audioVars, pipeVars, voiceVars, apiVars>>

\* _check_budget_warnings only reads; the with block ends and the call
\* returns
Release(t) ==
    /\ thread_pc[t] = "saved"
    /\ tracker_lock' = IF tracker_lock = t THEN NoThread ELSE tracker_lock
    /\ thread_pc' = [thread_pc EXCEPT ![t] = "returned"]
    /\ UNCHANGED <<usage_file, thread_data, usageVars, genVars, parseVars,
                   audioVars, pipeVars, voiceVars, apiVars>>

NextTrack ==
    \E t \in Threads :
        \/ Acquire(t)
        \/ AppendRecord(t)
        \/ OpenFile(t)
        \/ WriteFile(t)
        \/ Release(t)

SpecTrack == InitTrack /\ [][NextTrack]_vars

(***************************************************************************)
(* SpecApi: POST /api/podcast/generate requests served by one process. The *)
(* handler is a coroutine without an await, so the event loop runs it from *)
(* its first statement to its return or raise in one step; time passes     *)
(* between the handlers.                                                   *)
(***************************************************************************)
NumRequests    == 3   \* requests sent
MaxInstant     == 5   \* last instant of the clock
TicksPerSecond == 2   \* instants of the clock in one second

Requests == 1..NumRequests

\* request.document_text
DocumentText(r) == "document " \o ToString(r)

\* f"job_{datetime.now().strftime('%Y%m%d_%H%M%S')}": the instant cut down
\* to its second
JobId(instant) == "job_" \o ToString(instant \div TicksPerSecond)

\* the fields of the dataclass PodcastOptions
PodcastOptionsFields ==
    {"length", "host_voice", "guest_voice", "style", "output_format",
     "add_pauses", "normalize_audio", "temperature", "output_dir",
     "save_script"}

\* the keyword arguments the handler passes to PodcastOptions
HandlerKeywords ==
    {"length", "host_voice", "guest_voice", "cohost_voice",
     "moderator_voice", "style", "num_speakers", "output_format",
     "add_pauses", "normalize_audio", "temperature", "save_script",
     "output_dir"}

\* the generated __init__ of the dataclass raises TypeError for a keyword
\* that is no field; NoText when it returns
OptionsError(keywords) ==
    IF keywords \subseteq PodcastOptionsFields THEN NoText
    ELSE "__init__() got an unexpected keyword argument"

\* the module is imported: no job, no file, no task; the first request may
\* come early or late in a second
InitApi ==
    /\ now \in 0..1
    /\ generation_jobs = <<>>
    /\ doc_files = <<>>
    /\ background_tasks = <<>>
    /\ handlers = [r \in Requests |-> None]
    /\ GenIdle
    /\ ParseIdle
    /\ AudioIdle
    /\ PipeIdle
    /\ VoiceIdle
    /\ UsageIdle
    /\ TrackIdle

\* generate_podcast for request r: the job is registered, the document is
\* written, and PodcastOptions is built; if that raises, the except clause
\* answers 500, else the background task is added and the answer names the
\* job
GeneratePodcast(r) ==
    /\ handlers[r] = None
    /\ generation_jobs' =
          (JobId(now) :> [status |-> "processing", progress |-> 0,
                          created_at |-> now]) @@ generation_jobs
    /\ doc_files' = (JobId(now) :> DocumentText(r)) @@ doc_files
    /\ IF OptionsError(HandlerKeywords) # NoText
       THEN /\ handlers' =
                  [handlers EXCEPT ![r] =
                      [job_id |-> JobId(now), status_code |-> 500,
                       detail |-> OptionsError(HandlerKeywords)]]
            /\ UNCHANGED background_tasks
       ELSE /\ background_tasks' =
                  Append(background_tasks,
                         [job_id |-> JobId(now), doc_file |-> JobId(now)])
            /\ handlers' =
                  [handlers EXCEPT ![r] =
                      [job_id |-> JobId(now), status_code |-> 200,
                       detail |-> "Podcast generation started"]]
    /\ UNCHANGED <<now, genVars, parseVars, audioVars, pipeVars, voiceVars,
                   usageVars, trackVars>>

\* time passes
Tick ==
    /\ now < MaxInstant
    /\ now' = now + 1
    /\ UNCHANGED <<generation_jobs, doc_files, background_tasks, handlers,
                   genVars, parseVars, audioVars, pipeVars, voiceVars,
                   usageVars, trackVars>>

NextApi == Tick \/ \E r \in Requests : GeneratePodcast(r)

SpecApi == InitApi /\ [][NextApi]_vars

(***************************************************************************)
(* Claims about the parser (SpecParse)                                     *)
(***************************************************************************)
ParseDone == parse_pc = "done"

\* responses made of "Host: ..." and "Guest: ..." spans, with their spans
SpanTable ==
    {<<JoinSpans(sp), sp>> :
        sp \in UNION {[1..n -> {l_Host, l_Guest} \X SpanTexts] :
                         n \in 1..MaxSpans}}

\* one turn per span of sp, in order, numbered from 1
TurnsOfSpans(sp) ==
    [k \in 1..Len(sp) |-> [speaker     |-> StrLower(sp[k][1]),
                           text        |-> sp[k][2],
                           turn_number |-> k]]

LongSpans(sp) == SelectSeq(sp, LAMBDA x : Len(x[2]) > 10)

\* C4 as stated: a non-JSON response of labelled spans parses, by the
\* fallback, into one turn per labelled span, in order; the response
\* "Host: Hello there. Guest: Hi! Host: Great." gives exactly 3 turns with
\* speakers host, guest, host.
C4_Original ==
    \A e \in SpanTable :
        (ParseDone /\ response_text = [json |-> None, text |-> e[1]])
        => /\ parsed.ok
           /\ parsed.dialogue.turns = TurnsOfSpans(e[2])

\* C4 (amended): the fallback returns one turn per labelled span whose
\* trimmed text is longer than 10 characters, in order and numbered from 1,
\* and fails when no span is that long; the response
\* "Host: Hello there. Guest: Hi! Host: Great." gives exactly 1 turn, host
\* saying "Hello there.".
C4_FallbackKeepsLongSpans ==
    /\ \A e \in SpanTable :
        (ParseDone /\ response_text = [json |-> None, text |-> e[1]])
        => IF LongSpans(e[2]) = <<>>
           THEN ~parsed.ok
           ELSE /\ parsed.ok
                /\ parsed.dialogue.metadata.parsed_with_fallback
                /\ parsed.dialogue.turns = TurnsOfSpans(LongSpans(e[2]))
    /\ (ParseDone /\ response_text = [json |-> None, text |-> ExampleResponse])
        => /\ parsed.ok
           /\ parsed.dialogue.turns =
                 <<[speaker |-> s_host, text |-> t_hello, turn_number |-> 1]>>

C4_Witness ==
    /\ ParseDone
    /\ response_text = [json |-> None, text |-> ExampleResponse]
    /\ parsed.ok
    /\ Len(parsed.dialogue.turns) = 1

\* the response is a JSON object with a turns array of n >= 1 elements, each
\* with a speaker in `roles` and a non-empty text
WellFormedPayload(response, roles) ==
    /\ response.json # None
    /\ "turns" \in DOMAIN response.json
    /\ Len(response.json.turns) >= 1
    /\ \A k \in DOMAIN response.json.turns :
          /\ DOMAIN response.json.turns[k] = {"speaker", "text"}
          /\ response.json.turns[k].speaker \in roles
          /\ response.json.turns[k].text # <<>>

\* the parsed turns are the payload's (speaker, text) pairs, numbered 1..n
RoundTrip(response, outcome) ==
    /\ outcome.ok
    /\ Len(outcome.dialogue.turns) = Len(response.json.turns)
    /\ \A k \in DOMAIN response.json.turns :
          outcome.dialogue.turns[k] =
              [speaker     |-> response.json.turns[k].speaker,
               text        |-> response.json.turns[k].text,
               turn_number |-> k]

\* C5 as stated: for every well-formed JSON payload whose speakers are
\* canonical roles (host, guest, cohost, moderator) and whose texts are
\* non-empty, the parsed turns equal the input pairs in order, numbered 1..n.
C5_Original ==
    (ParseDone /\ WellFormedPayload(response_text, CanonicalRoles))
    => RoundTrip(response_text, parsed)

NoOuterSpace(text) ==
    text # <<>> /\ ~IsSpace(text[1]) /\ ~IsSpace(text[Len(text)])

\* C5 (amended): for every well-formed JSON payload whose speakers are host,
\* guest or cohost and whose texts are non-empty with no leading or trailing
\* whitespace, the parsed turns equal the input pairs in order, numbered 1..n.
C5_RoundTrip ==
    (/\ ParseDone
     /\ WellFormedPayload(response_text, {s_host, s_guest, s_cohost})
     /\ \A k \in DOMAIN response_text.json.turns :
           NoOuterSpace(response_text.json.turns[k].text))
    => RoundTrip(response_text, parsed)

C5_Witness ==
    /\ ParseDone
    /\ response_text.json =
          [turns |-> <<[speaker |-> s_host, text |-> t_hi],
                       [speaker |-> s_cohost, text |-> t_ok],
                       [speaker |-> s_guest, text |-> t_hi]>>]
    /\ RoundTrip(response_text, parsed)

\* the response is a JSON object whose turns array has one element, with
\* both fields
OneLabelledTurn(response) ==
    /\ response.json # None
    /\ "turns" \in DOMAIN response.json
    /\ Len(response.json.turns) = 1
    /\ DOMAIN response.json.turns[1] = {"speaker", "text"}

MentionsFirst(l) == Contains(l, s_s1) \/ Contains(l, s_speaker_1)
MentionsThird(l) ==
    Contains(l, s_s3) \/ Contains(l, s_speaker_3) \/ Contains(l, s_co_host)

\* the role the claim gives to the lower-cased label l, its rules read in
\* the order stated
ClaimedRole(l, role) ==
    /\ role \in {s_host, s_guest, s_cohost}
    /\ l \in {s_host, s_guest, s_cohost} => role = l
    /\ (l \notin {s_host, s_guest, s_cohost} /\ MentionsFirst(l))
          => role = s_host
    /\ (l \notin {s_host, s_guest, s_cohost} /\ ~MentionsFirst(l)
          /\ MentionsThird(l)) => role = s_cohost
    /\ (l \notin {s_host, s_guest, s_cohost} /\ ~MentionsFirst(l)
          /\ ~MentionsThird(l)) => role = s_guest

l_Speaker_1 == <<"S","p","e","a","k","e","r"," ","1">>
l_S3        == <<"S","3">>

\* C6: on the JSON path the speaker label is normalised without regard to
\* case and for every label: a capitalisation of host, guest or cohost is
\* that role; otherwise a label containing s1 or "speaker 1" is host;
\* otherwise one containing s3, "speaker 3" or "co-host" is cohost; every
\* other label is guest. "Speaker 1" becomes host, "S3" becomes cohost, and
\* the role is always host, guest or cohost.
C6_SpeakerNormalization ==
    (ParseDone /\ OneLabelledTurn(response_text))
    => /\ parsed.ok
       /\ ClaimedRole(StrLower(response_text.json.turns[1].speaker),
                      parsed.dialogue.turns[1].speaker)
       /\ response_text.json.turns[1].speaker = l_Speaker_1
             => parsed.dialogue.turns[1].speaker = s_host
       /\ response_text.json.turns[1].speaker = l_S3
             => parsed.dialogue.turns[1].speaker = s_cohost

C6_Witness ==
    /\ ParseDone
    /\ OneLabelledTurn(response_text)
    /\ response_text.json.turns[1].speaker = l_Speaker_1
    /\ parsed.dialogue.turns[1].speaker = s_host


(***************************************************************************)
(* Claims about generate_podcast_dialogue (SpecGen)                        *)
(***************************************************************************)
\* the call in progress, or the last one, passed the input validation
PassedValidation == call_args # None /\ InputError(call_args) = None

\* the attempt that met this provider outcome failed
AttemptFailed(outcome) ==
    ~TryAttempt(outcome, LENGTH_CONFIGS[call_args.length], model, 0).ok

\* the dialogue parsed from this provider outcome (title and turns)
DialogueOf(outcome) ==
    LET d == TryAttempt(outcome, LENGTH_CONFIGS[call_args.length],
                        model, 0).dialogue
    IN  [title |-> d.title, turns |-> d.turns]

\* C1: a call that passed the input validation makes between 1 and 3
\* provider calls; while it runs, every attempt so far failed and fewer than
\* 3 were made (so the next one is made); it returns only the dialogue parsed
\* from its last provider call, all the earlier ones having failed; and it
\* raises only after 3 failed provider calls, with a RuntimeError carrying
\* the message of the third failure.
C1_BoundedRetry ==
    PassedValidation =>
        /\ Len(outcomes) <= MAX_RETRIES
        /\ pc \in {"attempt", "returned", "raised"}
        /\ pc = "attempt" =>
              /\ Len(outcomes) = attempt
              /\ attempt < MAX_RETRIES
              /\ \A k \in 1..Len(outcomes) : AttemptFailed(outcomes[k])
        /\ pc = "returned" =>
              /\ Len(outcomes) >= 1
              /\ \A k \in 1..(Len(outcomes) - 1) : AttemptFailed(outcomes[k])
              /\ ~AttemptFailed(outcomes[Len(outcomes)])
              /\ result # None
              /\ [title |-> result.title, turns |-> result.turns]
                    = DialogueOf(outcomes[Len(outcomes)])
              /\ error = None
        /\ pc = "raised" =>
              /\ Len(outcomes) = MAX_RETRIES
              /\ \A k \in 1..MAX_RETRIES : AttemptFailed(outcomes[k])
              /\ result = None
              /\ error.type = "RuntimeError"
              /\ error.cause
                    = TryAttempt(outcomes[MAX_RETRIES],
                                 LENGTH_CONFIGS[call_args.length],
                                 model, 0).error

\* a call raised after three failed attempts, the first a provider error
\* and the last a malformed response
C1_Witness ==
    /\ PassedValidation
    /\ Len(outcomes) = MAX_RETRIES
    /\ outcomes[1].kind = "raises"
    /\ pc = "raised"
    /\ error.cause = "Response missing 'turns' field"

ZeroedAtStart ==
    /\ start_stats # None
    /\ start_stats.total_requests = 0
    /\ start_stats.failed_requests = 0

\* C2: when a call that began with zeroed statistics returns at its attempt
\* k, the k - 1 earlier attempts having failed, it returns the dialogue of
\* attempt k and leaves failed_requests = k - 1 and total_requests = k.
C2_StatisticsOfCall ==
    [][(pc = "attempt" /\ pc' = "returned" /\ ZeroedAtStart) =>
          LET k == Len(outcomes')
          IN  /\ k \in 1..MAX_RETRIES
              /\ \A m \in 1..(k - 1) : AttemptFailed(outcomes'[m])
              /\ result'.turns = DialogueOf(outcomes'[k]).turns
              /\ failed_requests' = k - 1
              /\ total_requests' = k]_vars

\* a malformed response, then a successful one: 1 failed request of 2
C2_Witness ==
    /\ pc = "returned"
    /\ ZeroedAtStart
    /\ Len(outcomes) = 2
    /\ outcomes[1].kind = "response"
    /\ outcomes[1].content # None
    /\ outcomes[1].content.json = j_missing_turns
    /\ result.turns = DialogueOf(outcomes[2]).turns
    /\ failed_requests = 1
    /\ total_requests = 2

Speakers(turns) == {turns[k].speaker : k \in DOMAIN turns}

\* C3 as stated: generate_podcast_dialogue never returns a dialogue with
\* zero turns, with a single speaker, or with a turn of empty text.
C3_StructurallyValid ==
    (pc = "returned" /\ result # None) =>
        /\ result.turns # <<>>
        /\ Cardinality(Speakers(result.turns)) >= 2
        /\ \A k \in DOMAIN result.turns : result.turns[k].text # <<>>


(***************************************************************************)
(* Claims about generate_podcast_audio and generate_and_save (SpecAudio)   *)
(***************************************************************************)
IsSpeech(seg) == seg.kind = "speech"
IsPause(seg) == seg.kind = "pause"

\* the turns consumed so far whose synthesis succeeded, in input order
ProducedTurns ==
    SelectSeq([i \in 1..turn_index |-> i], LAMBDA i : synth[i] = "ok")

\* the speech segments a list of produced turns stands for
SpeechOf(produced) ==
    [k \in 1..Len(produced) |-> Speech(produced[k], dialogue[produced[k]])]

AllSynthesized == \A i \in 1..Len(synth) : synth[i] = "ok"

\* the segment of turn i, i > 1, follows a same-speaker turn that was
\* synthesized, and neither intro nor outro
SameSpeakerCase(i) ==
    /\ add_pauses
    /\ i > 1
    /\ synth[i] = "ok"
    /\ synth[i - 1] = "ok"
    /\ dialogue[i].segment_type = "dialogue"
    /\ dialogue[i].speaker = dialogue[i - 1].speaker

\* the pause the claim C7 expects before such a turn
ReflectivePause(i) ==
    IF EndsWith(RStrip(dialogue[i - 1].text), "?")
    THEN Pause(PAUSE_AFTER_QUESTION)
    ELSE Pause(PAUSE_SAME_SPEAKER)

\* C7 as stated: before a same-speaker turn that is neither the first nor
\* intro nor outro, the pause is PAUSE_AFTER_QUESTION exactly when the
\* previous turn's text ends in '?', and PAUSE_SAME_SPEAKER otherwise.
C7_PauseAfterQuestion ==
    \A k \in 2..Len(audio_segments) :
        (IsSpeech(audio_segments[k])
         /\ SameSpeakerCase(audio_segments[k].turn))
        => audio_segments[k - 1] = ReflectivePause(audio_segments[k].turn)

\* C8: while every turn consumed so far was synthesized with success, the
\* speech segments are these turns in input order; with pauses enabled
\* there is exactly one pause immediately before the segment of every turn
\* but the first, and none before the first; without pauses there is none.
C8_OrderPreserved ==
    AllSynthesized =>
        /\ SelectSeq(audio_segments, IsSpeech)
              = [i \in 1..turn_index |-> Speech(i, dialogue[i])]
        /\ add_pauses /\ turn_index >= 1 =>
              /\ Len(audio_segments) = 2 * turn_index - 1
              /\ \A i \in 1..turn_index :
                    audio_segments[2 * i - 1] = Speech(i, dialogue[i])
              /\ \A i \in 2..turn_index : IsPause(audio_segments[2 * i - 2])
        /\ ~add_pauses => Len(audio_segments) = turn_index

\* three turns, all synthesized, assembled with pauses
C8_Witness ==
    /\ audio_pc = "returned"
    /\ add_pauses
    /\ Len(dialogue) = 3
    /\ AllSynthesized
    /\ Len(audio_segments) = 5
    /\ dialogue[1].speaker # dialogue[2].speaker

\* C9: the speech segments are exactly the turns whose trimmed text is not
\* empty and whose synthesis succeeded, in input order; every pause stands
\* immediately before a speech segment, so that a skipped or failed turn adds
\* nothing; a failed turn does not stop the loop; and the call raises if and
\* only if no turn produced a segment.
C9_PartialFailure ==
    /\ Len(synth) = turn_index
    /\ \A i \in 1..turn_index :
          (synth[i] = "skipped") <=> (Strip(dialogue[i].text) = <<>>)
    /\ SelectSeq(audio_segments, IsSpeech) = SpeechOf(ProducedTurns)
    /\ \A k \in 1..Len(audio_segments) :
          IsPause(audio_segments[k]) =>
              /\ k < Len(audio_segments)
              /\ IsSpeech(audio_segments[k + 1])
    /\ Len(audio_segments) <= 2 * Len(ProducedTurns)
    /\ audio_pc = "loop" => turn_index <= Len(dialogue)
    /\ audio_pc \in {"returned", "raised"} =>
          /\ turn_index = Len(dialogue)
          /\ (audio_pc = "raised") <=> (ProducedTurns = <<>>)

\* of three turns the second failed and the first and third were assembled
C9_Witness ==
    /\ audio_pc = "returned"
    /\ synth = <<"ok", "failed", "ok">>
    /\ SelectSeq(audio_segments, IsSpeech)
          = <<Speech(1, dialogue[1]), Speech(3, dialogue[3])>>

Degraded == \E i \in 1..Len(synth) : synth[i] # "ok"

\* C10 as stated: when the audio is returned although a turn was skipped or
\* failed, the metadata records it and its segment count is the number of
\* segments produced, not the length of the input turn list.
C10_MetadataRecordsDegradation ==
    (audio_pc = "returned" /\ Degraded) =>
        /\ audio_metadata.num_segments = Len(ProducedTurns)
        /\ \E f \in DOMAIN audio_metadata :
              f \notin {"format", "num_segments", "voices"}

(***************************************************************************)
(* Claims about create_podcast and validate_dialogue (SpecPipeline)        *)
(***************************************************************************)
WhitespaceOnly(text) == \A k \in DOMAIN text : IsSpace(text[k])

\* the generated dialogue has no turn, or a turn of whitespace-only text
EmptyOrBlank(dlg) ==
    \/ dlg.turns = <<>>
    \/ \E k \in DOMAIN dlg.turns : WhitespaceOnly(dlg.turns[k].text)

Ran(stage) == \E k \in DOMAIN stages : stages[k] = stage

\* C11: validate_dialogue raises for every dialogue without turns and for
\* every dialogue with a turn of whitespace-only text; create_podcast then
\* goes on to no later step, synthesizes no audio and does not return
\* success=True.
C11_EmptyDialogueRejected ==
    (pipe_dialogue # None /\ EmptyOrBlank(pipe_dialogue)) =>
        /\ ValidateDialogue(pipe_dialogue) # NoText
        /\ pipe_pc \in {"validate", "done"}
        /\ ~Ran("enhance")
        /\ ~Ran("audio")
        /\ pipe_pc = "done" =>
              /\ pipe_result # None
              /\ ~pipe_result.success
              /\ pipe_result.audio_file = NoText

\* a dialogue long enough and of two speakers, whose third turn is blank, was
\* rejected for that turn
C11_Witness ==
    /\ pipe_pc = "done"
    /\ pipe_dialogue # None
    /\ Len(pipe_dialogue.turns) >= MIN_DIALOGUE_TURNS
    /\ WhitespaceOnly(pipe_dialogue.turns[3].text)
    /\ pipe_dialogue.turns[3].text # <<>>
    /\ ~pipe_result.success
    /\ pipe_result.error = "Podcast generation failed: Found empty dialogue turn"

(***************************************************************************)
(* Further claims about generate_podcast_dialogue (SpecGen)                *)
(***************************************************************************)
\* the arguments are among those the input validation is said to reject
Rejected(args) ==
    \/ args.doc_len < 100
    \/ args.length \notin {"5min", "10min", "15min", "20min"}
    \/ args.num_speakers \notin {2, 3}
    \/ ~args.custom_prompt /\ PromptKey(args) \notin STYLE_SYSTEM_PROMPTS

\* C12: a call whose input is rejected raises a ValueError at once: no
\* provider call and no attempt is made, and total_requests,
\* failed_requests, total_tokens and the model are what they were when the
\* call began.
C12_InputErrorsNotRetried ==
    (call_args # None /\ Rejected(call_args)) =>
        /\ pc = "raised"
        /\ error.type = "ValueError"
        /\ outcomes = <<>>
        /\ attempt = 0
        /\ gen_op \in {"call", "reset"}
        /\ gen_op = "call" => Stats = start_stats

\* a call with 4 speakers was rejected after earlier calls had made requests
C12_Witness ==
    /\ gen_op = "call"
    /\ call_args # None
    /\ call_args.num_speakers = 4
    /\ pc = "raised"
    /\ total_requests >= 2
    /\ failed_requests >= 1
    /\ Stats = start_stats

FourStyles == {"conversational", "expert-panel", "debate", "interview"}

\* C13 as stated: without a custom prompt, every call whose style is not one
\* of the four style names raises a ValueError, for every speaker count.
C13_OnlyFourStyles ==
    (call_args # None /\ ~call_args.custom_prompt
     /\ call_args.style \notin FourStyles) =>
        pc = "raised" /\ error.type = "ValueError"

\* C14 as stated: when the first attempt of a call that began with a model
\* other than the fallback model has failed, the second attempt is made with
\* the fallback model.
C14_FallbackOnSecondAttempt ==
    (pc = "attempt" /\ attempt = 1 /\ start_stats.model # FALLBACK_MODEL) =>
        model = FALLBACK_MODEL

\* C20 as stated: the speakers of a returned dialogue are among host and
\* guest when num_speakers is 2, and among host, guest and cohost when it
\* is 3.
C20_SpeakersWithinCount ==
    (pc = "returned" /\ result # None) =>
        Speakers(result.turns) \subseteq
            (IF call_args.num_speakers = 2 THEN {s_host, s_guest}
             ELSE {s_host, s_guest, s_cohost})

(***************************************************************************)
(* Further claims about create_podcast (SpecPipeline)                      *)
(***************************************************************************)
\* C15 as stated: a generated dialogue with at least two distinct speakers
\* and no turn of empty text is not rejected by the pipeline for the number
\* of its turns.
C15_LowTurnCountNotFatal ==
    (pipe_pc = "done" /\ pipe_dialogue # None
     /\ Cardinality(Speakers(pipe_dialogue.turns)) >= 2
     /\ ~EmptyOrBlank(pipe_dialogue)) =>
        /\ ValidateDialogue(pipe_dialogue) = NoText
        /\ pipe_result.error # "Podcast generation failed: Dialogue too short"

(***************************************************************************)
(* Further claims about the parser (SpecParse)                             *)
(***************************************************************************)
ValidationWarnings == {"low_turn_count", "consecutive_turns"}

\* C16 as stated: when the parser returns a dialogue for which it found a
\* low turn count or a long run of one speaker, the metadata of the dialogue
\* holds a warning entry.
C16_WarningsInMetadata ==
    (ParseDone /\ parsed.ok /\ parsed.printed \cap ValidationWarnings # {}) =>
        \E f \in DOMAIN parsed.dialogue.metadata :
            f \notin {"model", "total_turns", "total_tokens"}

(***************************************************************************)
(* Claims about _resolve_voice (SpecVoice)                                 *)
(***************************************************************************)
\* 8-4-4-4-12 hexadecimal digits, in any case
UuidShaped(s) ==
    /\ Len(s) = 36
    /\ \A k \in 1..36 :
          IF k \in {9, 14, 19, 24} THEN s[k] = "-" ELSE s[k] \in HexDigits

\* the preset the claim C17 names as the default of a role
RoleDefaultKey(role) ==
    IF StrLower(role) = s_host THEN k_host_male_friendly
    ELSE IF StrLower(role) = s_guest THEN k_guest_female_expert
    ELSE k_cohost_male_casual

\* C17 as stated: _resolve_voice returns, for a UUID-shaped input, a config
\* with that id, neutral metadata and speed 1.0; for a preset name, that
\* preset; and for any other input the default preset of the role.
C17_VoiceResolution ==
    voice_pc = "returned" =>
        IF UuidShaped(voice_input)
        THEN /\ voice_config.id = voice_input
             /\ voice_config.gender = "neutral"
             /\ voice_config.speed = 100
        ELSE IF voice_input \in PresetKeys
        THEN /\ voice_config.key = voice_input
             /\ voice_config.id = Preset(voice_input).id
        ELSE /\ voice_config.key = RoleDefaultKey(voice_role)
             /\ voice_config.id = Preset(RoleDefaultKey(voice_role)).id

(***************************************************************************)
(* Claims about the usage records (SpecUsage)                              *)
(***************************************************************************)
\* C18 as stated: every provider call, LLM or TTS, successful or not,
\* appends exactly one usage record, a TTS record holding the number of
\* characters of the text sent.
C18_OneRecordPerCall ==
    /\ Len(records) = Len(provider_calls)
    /\ \A k \in DOMAIN records :
          /\ records[k].service = provider_calls[k].service
          /\ provider_calls[k].service = "tts" =>
                records[k].characters_generated = provider_calls[k].characters


\* the five stages of create_podcast, in the order the code runs them
StageOrder == <<"process_document", "generate", "validate", "enhance", "audio">>

\* C19: create_podcast ends with a PodcastResult whatever its inputs are and
\* whichever step raises: the call is over exactly when a result exists; a
\* result with success has an audio file and no error and all five stages
\* ran; a result without success has an error and no audio file; and the
\* stages that ran are an initial part of the stage order ending with the one
\* that failed, so no stage runs after a failure.
C19_StructuredResult ==
    /\ (pipe_pc = "done") <=> (pipe_result # None)
    /\ Len(stages) <= Len(StageOrder)
    /\ \A k \in DOMAIN stages : stages[k] = StageOrder[k]
    /\ pipe_pc # "done" => /\ pipe_result = None
                           /\ Len(stages) < Len(StageOrder)
                           /\ pipe_pc = StageOrder[Len(stages) + 1]
    /\ pipe_pc = "done" =>
          /\ DOMAIN pipe_result =
                {"success", "audio_file", "script_file", "metadata", "error"}
          /\ pipe_result.success \in BOOLEAN
          /\ pipe_result.success =>
                /\ pipe_result.audio_file # NoText
                /\ pipe_result.error = NoText
                /\ stages = StageOrder
          /\ ~pipe_result.success =>
                /\ pipe_result.error # NoText
                /\ pipe_result.audio_file = NoText
                /\ stages # <<>>

\* a run that failed in validate_dialogue, after two stages that succeeded
C19_Witness ==
    /\ pipe_pc = "done"
    /\ ~pipe_result.success
    /\ stages = <<"process_document", "generate", "validate">>
    /\ pipe_result.error # NoText

(***************************************************************************)
(* Further claims about the parser (SpecParse)                             *)
(***************************************************************************)
\* C21: in every dialogue the parser produces, by the JSON strategy or by the
\* fallback, the turn at 1-based position p has turn_number p, so the turn
\* numbers run from 1 to the number of turns without a gap, also when the
\* fallback discarded short matches.
C21_TurnNumbersArePositions ==
    ParseDone /\ parsed.ok =>
        \A p \in DOMAIN parsed.dialogue.turns :
            parsed.dialogue.turns[p].turn_number = p

\* the fallback parsed "Host: Hello there. Guest: Hi! Host: Hello there.":
\* the short middle match is discarded and the two kept turns are numbered
\* 1 and 2
C21_Witness ==
    /\ ParseDone
    /\ response_text.json = None
    /\ response_text.text =
          JoinSpans(<<<<l_Host, t_hello>>, <<l_Guest, t_hi_bang>>,
                      <<l_Host, t_hello>>>>)
    /\ parsed.ok
    /\ "fallback" \in parsed.printed
    /\ Len(parsed.dialogue.turns) = 2
    /\ parsed.dialogue.turns[2].turn_number = 2

\* C22: the fallback runs only when no JSON object can be extracted: a
\* response with an extracted object is never parsed by the fallback, one
\* whose object has no turns array fails with the missing-turns error, and a
\* fallback that extracts no turn fails.
C22_FallbackOnlyWithoutObject ==
    ParseDone =>
        /\ ExtractJson(response_text) # None =>
              /\ parsed.ok => "fallback" \notin parsed.printed
              /\ "turns" \notin DOMAIN ExtractJson(response_text) =>
                    /\ ~parsed.ok
                    /\ parsed.error = "Response missing 'turns' field"
        /\ ExtractJson(response_text) = None
              /\ FallbackTurns(response_text.text) = <<>> => ~parsed.ok

\* the label of a response made of the one span "<label>: Welcome to the show"
OneSpanLabels ==
    {l \in FallbackLabels :
        response_text.text = JoinSpans(<<<<l, t_welcome>>>>)}

\* C23: the fallback gives a label the role the JSON path's normalisation
\* gives to it, for Host, Guest, Cohost, Co-Host, Speaker 1..3 and S1..S3 in
\* any case; in particular Cohost, Co-Host, S3 and Speaker 3 become cohost.
C23_FallbackRolesAsJsonPath ==
    (ParseDone /\ response_text.json = None) =>
        \A l \in OneSpanLabels :
            /\ parsed.ok
            /\ Len(parsed.dialogue.turns) = 1
            /\ parsed.dialogue.turns[1].speaker = NormalizeSpeaker(l)
            /\ StrLower(l) \in {s_cohost, s_co_host, s_s3, s_speaker_3}
                  => parsed.dialogue.turns[1].speaker = s_cohost

(***************************************************************************)
(* Further claims about generate_podcast_audio (SpecAudio)                 *)
(***************************************************************************)
\* the speaker heard before the segment at position k: the speaker of the
\* speech segment that precedes its pause, if there is one
SpeakerBefore(k) ==
    IF k > 2 THEN audio_segments[k - 2].speaker ELSE NoSpeaker

\* C24: the pause is a prioritised choice among the four constants. With
\* pauses enabled the segment of every turn but the first has a pause right
\* before it, and each pause stands before such a segment; its duration is
\* one of the four constants; it is PAUSE_INTRO_OUTRO for a turn tagged intro
\* or outro, whatever the speakers and the punctuation; otherwise it is
\* PAUSE_BETWEEN_TURNS when the speaker changes, whatever the punctuation.
\* The constants are ordered bookend > turn change > reflective > same
\* speaker. With pauses disabled there is no pause.
C24_PausePriority ==
    /\ PAUSE_INTRO_OUTRO > PAUSE_BETWEEN_TURNS
    /\ PAUSE_BETWEEN_TURNS > PAUSE_AFTER_QUESTION
    /\ PAUSE_AFTER_QUESTION > PAUSE_SAME_SPEAKER
    /\ ~add_pauses => \A k \in DOMAIN audio_segments :
                          ~IsPause(audio_segments[k])
    /\ add_pauses =>
          \A k \in DOMAIN audio_segments :
              /\ IsPause(audio_segments[k]) =>
                    /\ k < Len(audio_segments)
                    /\ IsSpeech(audio_segments[k + 1])
                    /\ audio_segments[k + 1].turn > 1
                    /\ audio_segments[k].duration \in
                          {PAUSE_INTRO_OUTRO, PAUSE_BETWEEN_TURNS,
                           PAUSE_AFTER_QUESTION, PAUSE_SAME_SPEAKER}
              /\ (IsSpeech(audio_segments[k]) /\ audio_segments[k].turn > 1) =>
                    /\ k > 1
                    /\ IsPause(audio_segments[k - 1])
                    /\ dialogue[audio_segments[k].turn].segment_type
                             \in {"intro", "outro"}
                          => audio_segments[k - 1].duration = PAUSE_INTRO_OUTRO
                    /\ (/\ dialogue[audio_segments[k].turn].segment_type
                              \notin {"intro", "outro"}
                        /\ audio_segments[k].speaker # SpeakerBefore(k))
                          => audio_segments[k - 1].duration
                                = PAUSE_BETWEEN_TURNS

\* an outro turn that changes the speaker and asks a question got the
\* bookend pause
C24_Witness ==
    /\ add_pauses
    /\ \E k \in 3..Len(audio_segments) :
          /\ IsSpeech(audio_segments[k])
          /\ dialogue[audio_segments[k].turn].segment_type = "outro"
          /\ audio_segments[k].speaker # audio_segments[k - 2].speaker
          /\ IsQuestion(audio_segments[k].text)
          /\ audio_segments[k - 1] = Pause(PAUSE_INTRO_OUTRO)

\* C25: the assembled audio never begins with a pause: whenever the call
\* returns audio, whichever turns were skipped or failed, its first segment
\* is speech, and with pauses enabled the pauses are one fewer than the
\* speech segments.
C25_NoLeadingPause ==
    audio_pc = "returned" =>
        /\ IsSpeech(audio_segments[1])
        /\ add_pauses =>
              Len(SelectSeq(audio_segments, IsPause))
                 = Len(SelectSeq(audio_segments, IsSpeech)) - 1

(***************************************************************************)
(* Claims about concurrent track_generation calls (SpecTrack)              *)
(***************************************************************************)
\* the call of thread t has appended its record
HasAppended(t) == thread_pc[t] \in {"appended", "opened", "saved", "returned"}

\* the positions of the ledger that hold the record of thread t
PositionsOf(t) ==
    {k \in DOMAIN records : records[k].operation = ThreadOperation(t)}

\* the positions that hold a record loaded from the file at construction
LoadedPositions == {k \in DOMAIN records : records[k].operation = "loaded"}

\* C26: the ledger of one tracker is append-only under concurrency. In every
\* interleaving of the calls, each call that has appended has exactly one
\* record in the list and a call that has not has none, so n calls make the
\* list grow by exactly n; a step never changes or removes a record that is
\* already in the list; and when a call returns, the file holds exactly the
\* in-memory list.
C26_LedgerAppendOnly ==
    /\ [](/\ \A t \in Threads :
                Cardinality(PositionsOf(t)) = IF HasAppended(t) THEN 1 ELSE 0
          /\ Len(records) = Cardinality(LoadedPositions)
                             + Cardinality({t \in Threads : HasAppended(t)}))
    /\ [][/\ Len(records') >= Len(records)
          /\ SubSeq(records', 1, Len(records)) = records
          /\ \A t \in Threads :
                (thread_pc[t] # "returned" /\ thread_pc'[t] = "returned")
                => usage_file' = SavedFile(records')]_vars

\* every call has returned; the list holds the loaded record and one record
\* per call, the second thread's before the first thread's, and the file
\* holds the list
C26_Witness ==
    /\ \A t \in Threads : thread_pc[t] = "returned"
    /\ Len(records) = NumThreads + 1
    /\ records[2].operation = ThreadOperation(2)
    /\ records[3].operation = ThreadOperation(1)
    /\ usage_file = SavedFile(records)

(***************************************************************************)
(* Claims about the generator's counters and model (SpecGen)               *)
(***************************************************************************)
\* C27: after any sequence of generate_podcast_dialogue calls, successful,
\* failing or rejected, and reset_statistics calls,
\* 0 <= failed_requests <= total_requests; and reset_statistics sets
\* total_requests, failed_requests and total_tokens to 0 and changes nothing
\* else.
C27_CountersConsistent ==
    /\ [](0 <= failed_requests /\ failed_requests <= total_requests)
    /\ [][gen_op' = "reset" =>
             /\ total_requests' = 0
             /\ failed_requests' = 0
             /\ total_tokens' = 0
             /\ UNCHANGED <<model, pc, attempt, outcomes, result, error,
                            call_args>>]_vars

\* the statistics were reset after a call that used up its attempts, every
\* one of them counted as a request and as a failure
C27_Witness ==
    /\ gen_op = "reset"
    /\ pc = "raised"
    /\ Len(outcomes) = MAX_RETRIES
    /\ total_requests = 0
    /\ failed_requests = 0
    /\ model = FALLBACK_MODEL

\* C28: the model downgrade is sticky. The model changes only in a failed
\* attempt, only from the configured model to the fallback model, hence at
\* most once; once it is the fallback model it stays so through every later
\* attempt, call, successful return and reset_statistics.
C28_DowngradeIsSticky ==
    [][/\ model = FALLBACK_MODEL => model' = FALLBACK_MODEL
       /\ model' # model =>
             /\ model = DEFAULT_MODEL
             /\ model' = FALLBACK_MODEL
             /\ gen_op' = "attempt"
             /\ failed_requests' = failed_requests + 1]_vars

\* a call that began with the configured model switched to the fallback
\* model and returned a dialogue from it, and a later reset_statistics left
\* the fallback model in place
C28_Witness ==
    /\ start_stats # None
    /\ start_stats.model = DEFAULT_MODEL
    /\ model = FALLBACK_MODEL
    /\ pc = "returned"
    /\ result # None
    /\ gen_op = "reset"

(***************************************************************************)
(* Claims about POST /api/podcast/generate (SpecApi)                       *)
(***************************************************************************)
\* the requests whose handler has run
Handled == {r \in Requests : handlers[r] # None}

\* C29: no execution of the handler, one in which building the
\* PodcastOptions fails included, leaves a registered job in 'processing'
\* with no background task that will update it; so every registered job can
\* still reach 'completed' or 'failed'.
C29_NoOrphanedJob ==
    \A r \in Handled :
        generation_jobs[handlers[r].job_id].status = "processing" =>
            \E k \in DOMAIN background_tasks :
                background_tasks[k].job_id = handlers[r].job_id

\* C30: distinct requests never share a job: in every order and timing of
\* the requests each gets a job id of its own, so the document file of its
\* job holds its own document and no request overwrites another job's
\* status entry.
C30_DistinctJobs ==
    /\ \A r1, r2 \in Handled :
          r1 # r2 => handlers[r1].job_id # handlers[r2].job_id
    /\ \A r \in Handled : doc_files[handlers[r].job_id] = DocumentText(r)
    /\ Cardinality(DOMAIN generation_jobs) = Cardinality(Handled)

=============================================================================
